---- MODULE Spec2Model ----
(***************************************************************************)
(* libdeep: the convolutional feature-learning pipeline.                   *)
(*                                                                         *)
(*   src/src/autocoder.c          autocoder (encode, decode, backprop,     *)
(*                                learn, save, load)                       *)
(*   src/src/deeplearn_features.c patch geometry, scan, learn, convolve    *)
(*   src/src/deeplearn_pooling.c  max pooling                              *)
(*   src/src/deeplearn_conv.c     the pipeline: conv_init, conv_img,       *)
(*                                conv_update_training_error, conv_save,   *)
(*                                conv_load                                *)
(*                                                                         *)
(* C arrays are functions over 0..n-1, so indices are the source's.        *)
(* A float is a fixed-point integer: the value v stands for v/FP, and a    *)
(* product or quotient is rounded towards zero after every operation.      *)
(***************************************************************************)
EXTENDS Integers, Sequences, FiniteSets, TLC

VARIABLES conv, op, file, loaded, geom, feat

vars == <<conv, op, file, loaded, geom, feat>>

(***************************************************************************)
(* Arithmetic                                                              *)
(***************************************************************************)

\* resolution of the fixed-point representation of float
FP == 1000

\* C integer division (truncation towards zero), b > 0
CDiv(a, b) == IF a >= 0 THEN a \div b ELSE -((-a) \div b)

\* float product and quotient of two fixed-point values
Mul(a, b) == CDiv(a * b, FP)
FDiv(a, b) == IF b > 0 THEN CDiv(a * FP, b) ELSE -CDiv(a * FP, -b)

\* fabs
Fabs(a) == IF a < 0 THEN -a ELSE a

\* a function constructor, written out element by element when it is built
\* (f @@ g lists the elements of both)
Array(f) == f @@ << >>

\* an array of n elements, all v
Arr(n, v) == Array([k \in 0..(n-1) |-> v])

\* the value v under the name the expression F gives it: a value the code
\* computes once and then reads several times
With(v, F(_)) == F(v)

\* sum of F(0) .. F(n-1), accumulated from the highest index down
RECURSIVE SumDown(_, _)
SumDown(F(_), n) == IF n <= 0 THEN 0 ELSE F(n-1) + SumDown(F, n-1)

\* globals.h
AUTOCODER_UNKNOWN == -9999 * FP
AUTOCODER_DROPPED_OUT == -9999 * FP
DEEPLEARN_UNKNOWN_ERROR == 9999 * FP
DEEPLEARN_HISTORY_SIZE == 1024
\* limits.h UINT_MAX; the largest integer TLC represents stands for 2^32-1
UINT_MAX == 2147483647

\* the activation function AF (ACTIVATION_FUNCTION == AF_SIGMOID): the
\* logistic curve, here its tangent at 0 clipped into the open interval (0,1)
AF(adder) ==
    LET v == (FP \div 2) + CDiv(adder, 4)
    IN  IF v < 1 THEN 1 ELSE IF v > FP - 1 THEN FP - 1 ELSE v

\* PIXEL_TO_FLOAT(p) = 0.25f + ((p)/(2*255.0f))
PIXEL_TO_FLOAT(p) == (FP \div 4) + CDiv(p * FP, 2 * 255)

(***************************************************************************)
(* Random source (deeplearn_random.c is not part of src/): a seeded        *)
(* counter-style generator, the value returned is also the new seed.       *)
(***************************************************************************)
rand_num(seed) == (seed * 421 + 1663) % 7875

\* a small initial weight, smaller the more inputs the unit has
rand_initial_weight(seed, no_of_inputs) ==
    CDiv((rand_num(seed) % 2001) - 1000, no_of_inputs)

(***************************************************************************)
(* Autocoder (autocoder.c)                                                 *)
(***************************************************************************)

\* the values of the first k draws from seed, in the order drawn
RECURSIVE rand_draws(_, _, _)
rand_draws(seq, seed, k) ==
    IF Len(seq) >= k THEN seq
    ELSE IF k - Len(seq) > 16
    THEN rand_draws(rand_draws(seq, seed, Len(seq) + (k - Len(seq)) \div 2),
                    seed, k)
    ELSE rand_draws(Append(seq, rand_num(IF Len(seq) = 0 THEN seed
                                         ELSE seq[Len(seq)])), seed, k)

\* autocoder_init: buffers cleared, bias and weights drawn hidden unit by
\* hidden unit from the highest index down (bias[h] first, then row h from
\* its last input down)
autocoder_init(no_of_inputs, no_of_hiddens, random_seed) ==
    LET perUnit == 1 + no_of_inputs
        \* number of draws made before bias[h] is drawn
        before(h) == (no_of_hiddens - 1 - h) * perUnit
        draws == rand_draws(<< >>, random_seed, no_of_hiddens * perUnit)
        \* the seed the generator holds after k draws
        seedAt(k) == IF k = 0 THEN random_seed ELSE draws[k]
    IN  [ no_of_inputs |-> no_of_inputs,
          no_of_hiddens |-> no_of_hiddens,
          inputs |-> Arr(no_of_inputs, 0),
          hiddens |-> Arr(no_of_hiddens, 0),
          outputs |-> Arr(no_of_inputs, 0),
          bperr |-> Arr(no_of_hiddens, 0),
          bias |-> Array([h \in 0..(no_of_hiddens-1) |->
                      rand_initial_weight(seedAt(before(h)), 2)]),
          weights |-> Array([n \in 0..(no_of_hiddens*no_of_inputs-1) |->
                      LET h == n \div no_of_inputs
                          i == n % no_of_inputs
                      IN  rand_initial_weight(
                              seedAt(before(h) + 1 + (no_of_inputs - 1 - i)),
                              no_of_inputs)]),
          last_weight_change |-> Arr(no_of_hiddens*no_of_inputs, 0),
          last_bias_change |-> Arr(no_of_hiddens, 0),
          backprop_error |-> AUTOCODER_UNKNOWN,
          backprop_error_average |-> AUTOCODER_UNKNOWN,
          backprop_error_percent |-> 0,
          learning_rate |-> FP \div 5,
          noise |-> 0,
          random_seed |-> seedAt(no_of_hiddens * perUnit),
          itterations |-> 0,
          dropout_percent |-> FP \div 100 ]

\* the noise mixed into a weighted sum when autocoder->noise > 0:
\* adder = (1 - noise)*adder + noise*((rand_num(&seed)%10000)/10000.0f)
NoiseValue(noise, adder, seed) ==
    Mul(FP - noise, adder) +
    Mul(noise, CDiv((rand_num(seed) % 10000) * FP, 10000))

\* autocoder_encode, hidden units h, h-1, .. 0.  encoded is the array the
\* caller passes (a layer slice, or the autocoder's own hiddens); dropped
\* collects the units dropped in this call.
RECURSIVE encode_from(_, _, _, _, _)
encode_from(ac, encoded, dropped, use_dropouts, h) ==
    IF h < 0 THEN [ac |-> ac, encoded |-> encoded, dropped |-> dropped]
    ELSE
    LET seed1 == IF use_dropouts # 0 THEN rand_num(ac.random_seed)
                 ELSE ac.random_seed
        drop == /\ use_dropouts # 0
                /\ (seed1 % 10000) * FP < ac.dropout_percent * 100
        w(i) == Mul(ac.weights[h * ac.no_of_inputs + i], ac.inputs[i])
        sum == ac.bias[h] + SumDown(w, ac.no_of_inputs)
        seed2 == IF ac.noise > 0 THEN rand_num(seed1) ELSE seed1
        adder == IF ac.noise > 0 THEN NoiseValue(ac.noise, sum, seed1)
                 ELSE sum
    IN  IF drop
        THEN encode_from(
                 [ac EXCEPT !.random_seed = seed1,
                            !.hiddens[h] = AUTOCODER_DROPPED_OUT],
                 encoded, dropped \cup {h}, use_dropouts, h - 1)
        ELSE encode_from(
                 [ac EXCEPT !.random_seed = seed2],
                 [encoded EXCEPT ![h] = AF(adder)],
                 dropped, use_dropouts, h - 1)

autocoder_encode(ac, encoded, use_dropouts) ==
    encode_from(ac, encoded, {}, use_dropouts, ac.no_of_hiddens - 1)

\* autocoder_decode into autocoder->outputs, inputs i, i-1, .. 0
RECURSIVE decode_from(_, _)
decode_from(ac, i) ==
    IF i < 0 \/ i >= ac.no_of_inputs THEN ac
    ELSE
    LET term(h) == IF ac.hiddens[h] # AUTOCODER_DROPPED_OUT
                   THEN Mul(ac.weights[h * ac.no_of_inputs + i], ac.hiddens[h])
                   ELSE 0
        sum == SumDown(term, ac.no_of_hiddens)
        adder == IF ac.noise > 0 THEN NoiseValue(ac.noise, sum, ac.random_seed)
                 ELSE sum
        seed1 == IF ac.noise > 0 THEN rand_num(ac.random_seed)
                 ELSE ac.random_seed
    IN  decode_from([ac EXCEPT !.random_seed = seed1,
                               !.outputs[i] = AF(adder)], i - 1)

autocoder_decode(ac) == decode_from(ac, ac.no_of_inputs - 1)

\* autocoder_feed_forward: encode into the autocoder's own hiddens, with
\* dropouts, then decode into its outputs
autocoder_feed_forward(ac) ==
    LET e == autocoder_encode(ac, ac.hiddens, 1)
        \* encoded aliases ac->hiddens: both writes land in the one array
        hid == Array([h \in DOMAIN ac.hiddens |->
                   IF h \in e.dropped THEN AUTOCODER_DROPPED_OUT
                   ELSE e.encoded[h]])
    IN  autocoder_decode([e.ac EXCEPT !.hiddens = hid])

\* autocoder_backprop
autocoder_backprop(ac) ==
    LET err(i) == ac.inputs[i] - ac.outputs[i]
        abserr(i) == Fabs(err(i))
        total == SumDown(abserr, ac.no_of_inputs)
        afact(i) == Mul(ac.outputs[i], FP - ac.outputs[i])
        bp(i) == Mul(err(i), afact(i))
        hidden_err(h) ==
            IF ac.hiddens[h] # AUTOCODER_DROPPED_OUT
            THEN LET t(i) == Mul(bp(i), ac.weights[h * ac.no_of_inputs + i])
                 IN  SumDown(t, ac.no_of_inputs)
            ELSE 0
        \* (total * 100) / (no_of_inputs * 0.6)
        errorPercent == CDiv(total * 1000, 6 * ac.no_of_inputs)
        first == ac.backprop_error_average = AUTOCODER_UNKNOWN
    IN  [ac EXCEPT
           !.bperr = Array([h \in DOMAIN ac.bperr |-> hidden_err(h)]),
           !.backprop_error = total,
           !.backprop_error_average =
               IF first THEN total
               ELSE Mul(@, 999 * (FP \div 1000)) + Mul(total, FP \div 1000),
           !.backprop_error_percent =
               IF first THEN errorPercent
               ELSE Mul(@, 999 * (FP \div 1000)) + Mul(errorPercent, FP \div 1000),
           !.itterations = IF @ < UINT_MAX THEN @ + 1 ELSE @]

\* a variant of autocoder_learn: in the first pass a dropped-out unit is
\* treated as a unit of output 0.5
autocoder_learn_dropped(ac) ==
    LET nin == ac.no_of_inputs
        live(h) == ac.hiddens[h] # AUTOCODER_DROPPED_OUT
        e1 == FDiv(ac.learning_rate, FP + ac.no_of_hiddens * FP)
        grad1(i) == Mul(Mul(ac.outputs[i], FP - ac.outputs[i]),
                        ac.inputs[i] - ac.outputs[i])
        lwc1 == Array([n \in DOMAIN ac.weights |->
                   LET h == n \div nin
                       i == n % nin
                   IN  IF live(h)
                       THEN Mul(Mul(Mul(e1, ac.last_weight_change[n] + FP),
                                    grad1(i)), ac.hiddens[h])
                       ELSE Mul(Mul(Mul(e1, ac.last_weight_change[n] + FP),
                                    grad1(i)), FP \div 2)])
        w1 == Array([n \in DOMAIN ac.weights |->
                   ac.weights[n] + lwc1[n]])
        e2 == FDiv(ac.learning_rate, FP + nin * FP)
        grad2(h) == Mul(Mul(ac.hiddens[h], FP - ac.hiddens[h]), ac.bperr[h])
        lbc2 == Array([h \in DOMAIN ac.bias |->
                   IF live(h)
                   THEN Mul(Mul(e2, ac.last_bias_change[h] + FP), grad2(h))
                   ELSE ac.last_bias_change[h]])
        lwc2 == Array([n \in DOMAIN ac.weights |->
                   LET h == n \div nin
                       i == n % nin
                   IN  IF live(h)
                       THEN Mul(Mul(Mul(e2, lwc1[n] + FP), grad2(h)),
                                ac.inputs[i])
                       ELSE lwc1[n]])
    IN  [ac EXCEPT
           !.last_weight_change = lwc2,
           !.weights = Array([n \in DOMAIN ac.weights |->
                          IF live(n \div nin) THEN w1[n] + lwc2[n] ELSE w1[n]]),
           !.last_bias_change = lbc2,
           !.bias = Array([h \in DOMAIN ac.bias |->
                          IF live(h) THEN ac.bias[h] + lbc2[h] ELSE ac.bias[h]])]

\* autocoder_learn.  Every weight n = h*no_of_inputs + i is written once by
\* the first loop nest (outputs <- hiddens) and once by the second
\* (hiddens <- inputs), each write reading only element n and the buffers
\* the function does not change, so the loops are written element-wise.
autocoder_learn(ac) ==
    LET nin == ac.no_of_inputs
        live(h) == ac.hiddens[h] # AUTOCODER_DROPPED_OUT
        e1 == FDiv(ac.learning_rate, FP + ac.no_of_hiddens * FP)
        grad1(i) == Mul(Mul(ac.outputs[i], FP - ac.outputs[i]),
                        ac.inputs[i] - ac.outputs[i])
        lwc1 == Array([n \in DOMAIN ac.weights |->
                   LET h == n \div nin
                       i == n % nin
                   IN  IF live(h)
                       THEN Mul(Mul(Mul(e1, ac.last_weight_change[n] + FP),
                                    grad1(i)), ac.hiddens[h])
                       ELSE ac.last_weight_change[n]])
        w1 == Array([n \in DOMAIN ac.weights |->
                   IF live(n \div nin) THEN ac.weights[n] + lwc1[n]
                   ELSE ac.weights[n]])
        e2 == FDiv(ac.learning_rate, FP + nin * FP)
        grad2(h) == Mul(Mul(ac.hiddens[h], FP - ac.hiddens[h]), ac.bperr[h])
        lbc2 == Array([h \in DOMAIN ac.bias |->
                   IF live(h)
                   THEN Mul(Mul(e2, ac.last_bias_change[h] + FP), grad2(h))
                   ELSE ac.last_bias_change[h]])
        lwc2 == Array([n \in DOMAIN ac.weights |->
                   LET h == n \div nin
                       i == n % nin
                   IN  IF live(h)
                       THEN Mul(Mul(Mul(e2, lwc1[n] + FP), grad2(h)),
                                ac.inputs[i])
                       ELSE lwc1[n]])
    IN  [ac EXCEPT
           !.last_weight_change = lwc2,
           !.weights = Array([n \in DOMAIN ac.weights |->
                          IF live(n \div nin) THEN w1[n] + lwc2[n] ELSE w1[n]]),
           !.last_bias_change = lbc2,
           !.bias = Array([h \in DOMAIN ac.bias |->
                          IF live(h) THEN ac.bias[h] + lbc2[h] ELSE ac.bias[h]])]

\* autocoder_update: one training step on the inputs already scanned in
autocoder_update(ac) ==
    autocoder_learn(autocoder_backprop(autocoder_feed_forward(ac)))

(***************************************************************************)
(* Patch geometry and feature transfer (deeplearn_features.c)              *)
(***************************************************************************)

\* a variant of features_patch_coords without the test of the left edge
features_patch_coords_left(x, y, samples_across, samples_down, patch_radius, width, height) ==
    LET cy == CDiv(y * height, samples_down)
        cx == CDiv(x * width, samples_across)
        ty == cy - patch_radius
        by == cy + patch_radius
        tx == cx - patch_radius
        bx == cx + patch_radius
    IN  IF ty < 0 THEN [retval |-> -1, tx |-> 0, ty |-> ty, bx |-> 0, by |-> by]
        ELSE IF by >= height
             THEN [retval |-> -2, tx |-> 0, ty |-> ty, bx |-> 0, by |-> by]
        ELSE IF bx >= width
             THEN [retval |-> -4, tx |-> tx, ty |-> ty, bx |-> bx, by |-> by]
        ELSE [retval |-> 0, tx |-> tx, ty |-> ty, bx |-> bx, by |-> by]

\* features_patch_coords.  tx, ty, bx, by are what the caller's variables
\* hold on return (the callers initialise them to 0; the function writes ty
\* and by before the vertical tests, tx and bx only after them).
features_patch_coords(x, y, samples_across, samples_down, patch_radius, width, height) ==
    LET cy == CDiv(y * height, samples_down)
        cx == CDiv(x * width, samples_across)
        ty == cy - patch_radius
        by == cy + patch_radius
        tx == cx - patch_radius
        bx == cx + patch_radius
    IN  IF ty < 0 THEN [retval |-> -1, tx |-> 0, ty |-> ty, bx |-> 0, by |-> by]
        ELSE IF by >= height
             THEN [retval |-> -2, tx |-> 0, ty |-> ty, bx |-> 0, by |-> by]
        ELSE IF tx < 0
             THEN [retval |-> -3, tx |-> tx, ty |-> ty, bx |-> bx, by |-> by]
        ELSE IF bx >= width
             THEN [retval |-> -4, tx |-> tx, ty |-> ty, bx |-> bx, by |-> by]
        ELSE [retval |-> 0, tx |-> tx, ty |-> ty, bx |-> bx, by |-> by]

\* index_feature_input after the loops FOR(y,ty,by) FOR(x,tx,bx)
\* COUNTDOWN(d,depth) of a scan
PatchLength(tx, ty, bx, by, depth) ==
    (IF by > ty THEN by - ty ELSE 0) * (IF bx > tx THEN bx - tx ELSE 0) *
    (IF depth > 0 THEN depth ELSE 0)

\* the source index whose value a scan stores at autocoder input k: pixels
\* row by row, within a pixel the channels from depth-1 down to 0
PatchSourceIndex(k, width, depth, tx, ty, bx) ==
    LET pw == bx - tx
        y == ty + (k \div (pw * depth))
        x == tx + ((k \div depth) % pw)
        d == depth - 1 - (k % depth)
    IN  ((y * width) + x) * depth + d

\* scan_image_patch: bytes, converted with PIXEL_TO_FLOAT
scan_image_patch(img, img_width, img_depth, tx, ty, bx, by, ac) ==
    LET len == PatchLength(tx, ty, bx, by, img_depth)
    IN  [retval |-> IF len # ac.no_of_inputs THEN -1 ELSE 0,
         ac |-> [ac EXCEPT !.inputs = Array([k \in DOMAIN ac.inputs |->
                    IF k < len
                    THEN PIXEL_TO_FLOAT(
                           img[PatchSourceIndex(k, img_width, img_depth, tx, ty, bx)])
                    ELSE ac.inputs[k]])]]

\* scan_patch: floats, copied
scan_patch(inputs_floats, inputs_width, inputs_depth, tx, ty, bx, by, ac) ==
    LET len == PatchLength(tx, ty, bx, by, inputs_depth)
    IN  [retval |-> IF len # ac.no_of_inputs THEN -1 ELSE 0,
         ac |-> [ac EXCEPT !.inputs = Array([k \in DOMAIN ac.inputs |->
                    IF k < len
                    THEN inputs_floats[
                           PatchSourceIndex(k, inputs_width, inputs_depth, tx, ty, bx)]
                    ELSE ac.inputs[k]])]]

\* either scan, by the kind of source ("img": bytes, "flt": floats)
ScanSource(kind, src, width, depth, tx, ty, bx, by, ac) ==
    IF kind = "img" THEN scan_image_patch(src, width, depth, tx, ty, bx, by, ac)
    ELSE scan_patch(src, width, depth, tx, ty, bx, by, ac)

\* a variant of learn_from: the loop ends after the first cell it visits
learn_from_once(st, k, kind, samples_across, samples_down, patch_radius, width, height, depth, src) ==
    IF k < 0 \/ st.retval # 0 THEN st
    ELSE
    LET fy == k \div samples_across
        fx == k % samples_across
    IN
    With(features_patch_coords(fx, fy, samples_across, samples_down,
                               patch_radius, width, height), LAMBDA pc :
    With(ScanSource(kind, src, width, depth, pc.tx, pc.ty, pc.bx, pc.by,
                    st.ac), LAMBDA sc :
    With(autocoder_update(sc.ac), LAMBDA up :
        IF pc.retval # 0 THEN st
        ELSE IF sc.retval # 0
        THEN [st EXCEPT !.retval = -4, !.ac = sc.ac]
        ELSE [st EXCEPT !.ac = up,
                        !.BPerror = @ + up.backprop_error])))

\* the cell loop of features_learn_from_image / features_learn:
\* COUNTDOWN(fy, samples_down) COUNTDOWN(fx, samples_across), that is the
\* cells k = fy*samples_across + fx from the last down to 0.  st is
\* [retval, ac, BPerror].
RECURSIVE learn_from(_, _, _, _, _, _, _, _, _, _)
learn_from(st, k, kind, samples_across, samples_down, patch_radius, width, height, depth, src) ==
    IF k < 0 \/ st.retval # 0 THEN st
    ELSE
    LET fy == k \div samples_across
        fx == k % samples_across
    IN
    With(features_patch_coords(fx, fy, samples_across, samples_down,
                               patch_radius, width, height), LAMBDA pc :
    With(ScanSource(kind, src, width, depth, pc.tx, pc.ty, pc.bx, pc.by,
                    st.ac), LAMBDA sc :
    With(autocoder_update(sc.ac), LAMBDA up :
        learn_from(IF pc.retval # 0 THEN st
                   ELSE IF sc.retval # 0
                   THEN [st EXCEPT !.retval = -4, !.ac = sc.ac]
                   ELSE [st EXCEPT !.ac = up,
                                   !.BPerror = @ + up.backprop_error],
                   k - 1, kind, samples_across, samples_down,
                   patch_radius, width, height, depth, src))))

\* features_learn_from_image (kind "img") and features_learn (kind "flt"):
\* the two size checks, the cell loop, and the average over the grid
LearnSource(kind, samples_across, samples_down, patch_radius, width, height, depth, src, layer0_units, ac) ==
    IF samples_across * samples_down * ac.no_of_hiddens # layer0_units
    THEN [retval |-> -1, ac |-> ac, BPerror |-> 0]
    ELSE IF ac.no_of_inputs # patch_radius * patch_radius * 4 * depth
    THEN [retval |-> -2, ac |-> ac, BPerror |-> 0]
    ELSE
    With(learn_from([retval |-> 0, ac |-> ac, BPerror |-> 0],
                    samples_across * samples_down - 1, kind,
                    samples_across, samples_down, patch_radius,
                    width, height, depth, src), LAMBDA r :
        IF r.retval # 0 THEN r
        ELSE [r EXCEPT !.BPerror = CDiv(@, samples_across * samples_down)])

features_learn_from_image(samples_across, samples_down, patch_radius, img_width, img_height, img_depth, img, layer0_units, ac) ==
    LearnSource("img", samples_across, samples_down, patch_radius,
                img_width, img_height, img_depth, img, layer0_units, ac)

features_learn(samples_across, samples_down, patch_radius, inputs_width, inputs_height, inputs_depth, inputs_floats, layer0_units, ac) ==
    LearnSource("flt", samples_across, samples_down, patch_radius,
                inputs_width, inputs_height, inputs_depth, inputs_floats,
                layer0_units, ac)

\* a variant of zero_slice: the element after the slice is zeroed as well
zero_slice_wide(layer, index_layer, nf) ==
    Array([n \in DOMAIN layer |->
              IF n >= index_layer /\ n <= index_layer + nf THEN 0 ELSE layer[n]])

\* a variant of zero_slice: feature 0 of the slice is left as it was
zero_slice_short(layer, index_layer, nf) ==
    Array([n \in DOMAIN layer |->
              IF n > index_layer /\ n < index_layer + nf THEN 0 ELSE layer[n]])

\* COUNTDOWN(f, no_of_learned_features) layer[index_layer+f] = 0
zero_slice(layer, index_layer, nf) ==
    Array([n \in DOMAIN layer |->
              IF n >= index_layer /\ n < index_layer + nf THEN 0 ELSE layer[n]])

\* the cell loop of features_convolve_image / features_convolve, cells from
\* the last down to 0.  st is [retval, ac, layer]; an out-of-bounds cell has
\* its slice of the layer zeroed, an in-bounds cell is scanned and encoded
\* straight into its slice.
RECURSIVE convolve_from(_, _, _, _, _, _, _, _, _, _, _)
convolve_from(st, k, kind, samples_across, samples_down, patch_radius, width, height, depth, src, use_dropouts) ==
    IF k < 0 \/ st.retval # 0 THEN st
    ELSE
    LET nf == st.ac.no_of_hiddens
        fy == k \div samples_across
        fx == k % samples_across
        index_layer == (fy * samples_across + fx) * nf
        slice == Array([f \in 0..(nf-1) |-> st.layer[index_layer + f]])
    IN
    With(features_patch_coords(fx, fy, samples_across, samples_down,
                               patch_radius, width, height), LAMBDA pc :
    With(ScanSource(kind, src, width, depth, pc.tx, pc.ty, pc.bx, pc.by,
                    st.ac), LAMBDA sc :
    With(autocoder_encode(sc.ac, slice, use_dropouts), LAMBDA en :
        convolve_from(
            IF pc.retval # 0
            THEN [st EXCEPT !.layer = zero_slice(@, index_layer, nf)]
            ELSE IF sc.retval # 0 THEN [st EXCEPT !.retval = -4, !.ac = sc.ac]
            ELSE [st EXCEPT !.ac = en.ac,
                            !.layer = Array([n \in DOMAIN st.layer |->
                     IF n >= index_layer /\ n < index_layer + nf
                     THEN en.encoded[n - index_layer] ELSE st.layer[n]])],
            k - 1, kind, samples_across, samples_down,
            patch_radius, width, height, depth, src, use_dropouts))))

\* features_convolve_image (kind "img") and features_convolve (kind "flt")
ConvolveSource(kind, samples_across, samples_down, patch_radius, width, height, depth, src, layer_units, layer, ac, use_dropouts) ==
    IF samples_across * samples_down * ac.no_of_hiddens # layer_units
    THEN [retval |-> -1, ac |-> ac, layer |-> layer]
    ELSE IF ac.no_of_inputs # patch_radius * patch_radius * 4 * depth
    THEN [retval |-> -2, ac |-> ac, layer |-> layer]
    ELSE convolve_from([retval |-> 0, ac |-> ac, layer |-> layer],
                       samples_across * samples_down - 1, kind,
                       samples_across, samples_down, patch_radius,
                       width, height, depth, src, use_dropouts)

features_convolve_image(samples_across, samples_down, patch_radius, img_width, img_height, img_depth, img, layer0_units, layer0, ac, use_dropouts) ==
    ConvolveSource("img", samples_across, samples_down, patch_radius,
                   img_width, img_height, img_depth, img,
                   layer0_units, layer0, ac, use_dropouts)

features_convolve(samples_across, samples_down, patch_radius, floats_width, floats_height, floats_depth, layer0, layer1_units, layer1, ac, use_dropouts) ==
    ConvolveSource("flt", samples_across, samples_down, patch_radius,
                   floats_width, floats_height, floats_depth, layer0,
                   layer1_units, layer1, ac, use_dropouts)

(***************************************************************************)
(* Pooling (deeplearn_pooling.c)                                           *)
(***************************************************************************)

\* a variant of pooling_from_flt_to_flt without the test of the sizes: the
\* destination is cleared and pooled into whatever the two cell counts are
RECURSIVE pool_from(_, _, _, _, _, _, _, _)
pooling_from_flt_to_flt_unchecked(depth, layer0_across, layer0_down, layer0, layer1_across, layer1_down, layer1) ==
    [retval |-> 0,
     layer1 |-> pool_from(Array([n \in DOMAIN layer1 |->
                             IF n < layer1_across * layer1_down * depth
                             THEN 0 ELSE layer1[n]]),
                          0, depth, layer0_across, layer0_down, layer0,
                          layer1_across, layer1_down)]

\* a variant of pool_from without the comparison: the destination value is
\* that of the last source cell mapping to it
pool_from_last(layer1, k, depth, layer0_across, layer0_down, layer0, layer1_across, layer1_down) ==
    IF k >= layer0_across * layer0_down THEN layer1
    ELSE
    LET n0 == k * depth
        n1 == (CDiv((k \div layer0_across) * layer1_down, layer0_down)
                   * layer1_across
               + CDiv((k % layer0_across) * layer1_across, layer0_across))
              * depth
    IN  pool_from(Array([n \in DOMAIN layer1 |->
                      IF n >= n1 /\ n < n1 + depth
                      THEN layer0[n0 + (n - n1)] ELSE layer1[n]]),
                  k + 1, depth, layer0_across, layer0_down, layer0,
                  layer1_across, layer1_down)

\* the source-cell loops of max pooling: for y0, for x0 (cells k = y0*
\* layer0_across + x0 upwards), for d: a destination value is replaced when
\* the source value is strictly greater
pool_from(layer1, k, depth, layer0_across, layer0_down, layer0, layer1_across, layer1_down) ==
    IF k >= layer0_across * layer0_down THEN layer1
    ELSE
    LET y0 == k \div layer0_across
        x0 == k % layer0_across
        y1 == CDiv(y0 * layer1_down, layer0_down)
        x1 == CDiv(x0 * layer1_across, layer0_across)
        n0 == (y0 * layer0_across + x0) * depth
        n1 == (y1 * layer1_across + x1) * depth
    IN  pool_from(Array([n \in DOMAIN layer1 |->
                      IF n >= n1 /\ n < n1 + depth /\ layer0[n0 + (n - n1)] > layer1[n]
                      THEN layer0[n0 + (n - n1)] ELSE layer1[n]]),
                  k + 1, depth, layer0_across, layer0_down, layer0,
                  layer1_across, layer1_down)

\* pooling_from_flt_to_flt; [retval, layer1]
pooling_from_flt_to_flt(depth, layer0_across, layer0_down, layer0, layer1_across, layer1_down, layer1) ==
    IF layer1_across * layer1_down > layer0_across * layer0_down
    THEN [retval |-> -1, layer1 |-> layer1]
    ELSE IF layer1_across * layer1_down = layer0_across * layer0_down
    THEN \* memcpy of layer1_across*layer1_down*depth floats
         [retval |-> 0,
          layer1 |-> Array([n \in DOMAIN layer1 |->
                        IF n < layer1_across * layer1_down * depth
                        THEN layer0[n] ELSE layer1[n]])]
    ELSE \* memset of layer1_across*layer1_down*depth floats, then the loops
         [retval |-> 0,
          layer1 |-> pool_from(Array([n \in DOMAIN layer1 |->
                                  IF n < layer1_across * layer1_down * depth
                                  THEN 0 ELSE layer1[n]]),
                               0, depth, layer0_across, layer0_down, layer0,
                               layer1_across, layer1_down)]

\* unpooling_from_flt_to_flt; [retval, original_layer].  Every element of
\* the original layer is written once, from the pooled cell at
\* (x_original*pooled_layer_across/original_layer_across,
\*  y_original*pooled_layer_down/original_layer_down), so the loops are
\* written element-wise.
unpooling_from_flt_to_flt(depth, pooled_layer_across, pooled_layer_down, pooled_layer, original_layer_across, original_layer_down, original_layer) ==
    IF original_layer_across * original_layer_down >
           pooled_layer_across * pooled_layer_down
    THEN [retval |-> -1, original_layer |-> original_layer]
    ELSE IF original_layer_across * original_layer_down =
                pooled_layer_across * pooled_layer_down
    THEN \* memcpy of pooled_layer_across*pooled_layer_down*depth floats
         [retval |-> 0,
          original_layer |-> Array([n \in DOMAIN original_layer |->
              IF n < pooled_layer_across * pooled_layer_down * depth
              THEN pooled_layer[n] ELSE original_layer[n]])]
    ELSE [retval |-> 0,
          original_layer |-> Array([n \in DOMAIN original_layer |->
              IF n < original_layer_across * original_layer_down * depth
              THEN LET y_original == (n \div depth) \div original_layer_across
                       x_original == (n \div depth) % original_layer_across
                       y_pooled == CDiv(y_original * pooled_layer_down,
                                        original_layer_down)
                       x_pooled == CDiv(x_original * pooled_layer_across,
                                        original_layer_across)
                       n_pooled == (y_pooled * pooled_layer_across + x_pooled)
                                   * depth
                   IN  pooled_layer[n_pooled + (n % depth)]
              ELSE original_layer[n]])]

(***************************************************************************)
(* The convolution pipeline (deeplearn_conv.c)                             *)
(***************************************************************************)

BEFORE_POOLING == 0
AFTER_POOLING == 1
PREPROCESS_MAX_LAYERS == 100

\* BPerror < 0 marks the running error as unset; conv_init stores -1
BPERROR_UNSET == -FP

\* conv_layer_features
conv_layer_features(c, layer_index) ==
    c.max_features -
        CDiv(CDiv(c.max_features, 2) * layer_index, c.no_of_layers)

\* conv_patch_radius
conv_patch_radius(layer_index, c) ==
    LET radius ==
          IF layer_index = 0
          THEN CDiv(c.inputs_across, c.layer[0].units_across)
          ELSE CDiv(CDiv(c.layer[layer_index-1].units_across,
                         c.layer[layer_index-1].pooling_factor),
                    c.layer[layer_index].units_across)
    IN  IF radius < 2 THEN 2 ELSE radius

\* conv_layer_width, conv_layer_height
conv_layer_width(layer_index, c, after_pooling) ==
    IF after_pooling = BEFORE_POOLING THEN c.layer[layer_index].units_across
    ELSE CDiv(c.layer[layer_index].units_across,
              c.layer[layer_index].pooling_factor)

conv_layer_height(layer_index, c, after_pooling) ==
    IF after_pooling = BEFORE_POOLING THEN c.layer[layer_index].units_down
    ELSE CDiv(c.layer[layer_index].units_down,
              c.layer[layer_index].pooling_factor)

\* convolution_layer_units
convolution_layer_units(layer_index, c) ==
    c.layer[layer_index].units_across * c.layer[layer_index].units_down *
    conv_layer_features(c, layer_index)

\* the layer loop of conv_init, layers i, i+1, ..; st is [retval, conv,
\* across, down, random_seed] (random_seed: the caller's variable).  A buffer
\* from FLOATALLOC holds indeterminate values, here all equal to garbage.
RECURSIVE init_layers(_, _, _)
init_layers(st, i, garbage) ==
    IF i >= st.conv.no_of_layers THEN st
    ELSE
    LET c == st.conv
        clamp4(v) == IF v < 4 THEN 4 ELSE v
        across == clamp4(CDiv(st.across, c.reduction_factor))
        down == clamp4(CDiv(st.down, c.reduction_factor))
        features == conv_layer_features(c, i)
        seed == rand_num(st.random_seed)
        \* the layer as far as it is set when the patch radius is computed
        c1 == [c EXCEPT !.layer = @ @@ (i :>
                 [units_across |-> across, units_down |-> down,
                  pooling_factor |-> c.pooling_factor])]
        depth == IF i = 0 THEN c.inputs_depth ELSE conv_layer_features(c, i)
        patch_pixels == conv_patch_radius(i, c1) * conv_patch_radius(i, c1) * 4
        across2 == clamp4(CDiv(across, c.pooling_factor))
        down2 == clamp4(CDiv(down, c.pooling_factor))
        lay == [units_across |-> across, units_down |-> down,
                pooling_factor |-> c.pooling_factor,
                convolution |-> Arr(across * down * features, garbage),
                autocoder |-> autocoder_init(patch_pixels * depth, features, seed),
                pooling |-> Arr(across2 * down2 * features, garbage)]
    IN  init_layers([st EXCEPT
                       !.conv.layer = Array([k \in 0..i |-> IF k = i THEN lay ELSE @[k]]),
                       !.across = across2, !.down = down2,
                       !.random_seed = seed],
                    i + 1, garbage)

\* conv_init; [retval, conv, random_seed].  Allocation is taken to succeed.
conv_init(no_of_layers, inputs_across, inputs_down, inputs_depth, max_features, reduction_factor, pooling_factor, error_threshold, random_seed, garbage) ==
    LET seed == rand_num(random_seed)
        c0 == [ random_seed |-> seed,
                reduction_factor |-> reduction_factor,
                pooling_factor |-> pooling_factor,
                history_ctr |-> 0,
                training_ctr |-> 0,
                history_index |-> 0,
                history_step |-> 1,
                history_plot_interval |-> 1,
                history |-> << >>,
                current_layer |-> 0,
                training_complete |-> 0,
                itterations |-> 0,
                BPerror |-> BPERROR_UNSET,
                error_threshold |-> Array([k \in 0..(no_of_layers-1) |-> error_threshold[k]]),
                enable_learning |-> 0,
                no_of_layers |-> no_of_layers,
                inputs_across |-> inputs_across,
                inputs_down |-> inputs_down,
                inputs_depth |-> inputs_depth,
                max_features |-> max_features,
                layer |-> << >> ]
        r == init_layers([retval |-> 0, conv |-> c0, across |-> inputs_across,
                          down |-> inputs_down, random_seed |-> seed], 0, garbage)
    IN  IF no_of_layers >= PREPROCESS_MAX_LAYERS
        THEN [retval |-> -1, conv |-> << >>, random_seed |-> random_seed]
        ELSE [retval |-> r.retval, conv |-> r.conv, random_seed |-> r.random_seed]

\* a variant of conv_update_history: the array is compacted only once the
\* index has passed its capacity
conv_update_history_late(c) ==
    IF c.history_step = 0 THEN c
    ELSE IF c.history_ctr + 1 < c.history_step
    THEN [c EXCEPT !.history_ctr = @ + 1]
    ELSE
    LET error_value == IF c.BPerror = DEEPLEARN_UNKNOWN_ERROR THEN 0 ELSE c.BPerror
        h1 == Append(c.history, error_value)
        index == c.history_index + 1
    IN  IF index > DEEPLEARN_HISTORY_SIZE
        THEN [c EXCEPT !.history_ctr = 0,
                       !.history = Array([j \in 1..(index \div 2) |->
                                      h1[IF 2*j <= index THEN 2*j ELSE index]]),
                       !.history_index = index \div 2,
                       !.history_step = @ * 2]
        ELSE [c EXCEPT !.history_ctr = 0, !.history = h1,
                       !.history_index = index]

\* conv_update_history.  history holds the filled part of the array,
\* history[0 .. history_index-1], as a sequence (element i of the array is
\* history[i+1]).
conv_update_history(c) ==
    IF c.history_step = 0 THEN c
    ELSE IF c.history_ctr + 1 < c.history_step
    THEN [c EXCEPT !.history_ctr = @ + 1]
    ELSE
    LET error_value == IF c.BPerror = DEEPLEARN_UNKNOWN_ERROR THEN 0 ELSE c.BPerror
        h1 == Append(c.history, error_value)
        index == c.history_index + 1
    IN  IF index >= DEEPLEARN_HISTORY_SIZE
        THEN \* for (i = 0; i < index; i++) history[i/2] = history[i]
             [c EXCEPT !.history_ctr = 0,
                       !.history = Array([j \in 1..(index \div 2) |->
                                      h1[IF 2*j <= index THEN 2*j ELSE index]]),
                       !.history_index = index \div 2,
                       !.history_step = @ * 2]
        ELSE [c EXCEPT !.history_ctr = 0, !.history = h1,
                       !.history_index = index]

\* get_max_layer
get_max_layer(c) ==
    IF c.training_complete = 0 THEN c.current_layer + 1 ELSE c.no_of_layers

\* a variant of conv_enable_learning: every layer up to the one being
\* trained learns
conv_enable_learning_below(layer_index, c) ==
    IF c.training_complete = 0
    THEN [c EXCEPT !.enable_learning =
                     IF layer_index <= get_max_layer(c) - 1 THEN 1 ELSE 0]
    ELSE [c EXCEPT !.enable_learning = 0]

\* conv_enable_learning
conv_enable_learning(layer_index, c) ==
    IF c.training_complete = 0
    THEN [c EXCEPT !.enable_learning =
                     IF layer_index = get_max_layer(c) - 1 THEN 1 ELSE 0]
    ELSE [c EXCEPT !.enable_learning = 0]

\* a variant of running_average: the two factors are exchanged
running_average_swapped(old, BPerror) ==
    Mul(old, FP \div 100) + Mul(BPerror, 99 * (FP \div 100))

\* the running average of the training error:
\* (conv->BPerror*0.99f) + (BPerror*0.01f)
running_average(old, BPerror) ==
    Mul(old, 99 * (FP \div 100)) + Mul(BPerror, FP \div 100)

\* variants of conv_layer_completed that differ from the code in one place:
\* the pipeline moves back a layer
conv_layer_completed_back(c, threshold) ==
    IF c.BPerror < threshold
    THEN LET c1 == [c EXCEPT !.BPerror = BPERROR_UNSET,
                             !.current_layer = @ - 1]
         IN  IF c1.current_layer >= c1.no_of_layers
             THEN [c1 EXCEPT !.training_complete = 1]
             ELSE c1
    ELSE c

\* the next layer is skipped
conv_layer_completed_skip(c, threshold) ==
    IF c.BPerror < threshold
    THEN LET c1 == [c EXCEPT !.BPerror = BPERROR_UNSET,
                             !.current_layer = @ + 2]
         IN  IF c1.current_layer >= c1.no_of_layers
             THEN [c1 EXCEPT !.training_complete = 1]
             ELSE c1
    ELSE c

\* training completes one layer late
conv_layer_completed_late(c, threshold) ==
    IF c.BPerror < threshold
    THEN LET c1 == [c EXCEPT !.BPerror = BPERROR_UNSET,
                             !.current_layer = @ + 1]
         IN  IF c1.current_layer > c1.no_of_layers
             THEN [c1 EXCEPT !.training_complete = 1]
             ELSE c1
    ELSE c

\* the running error is kept for the next layer
conv_layer_completed_keep(c, threshold) ==
    IF c.BPerror < threshold
    THEN LET c1 == [c EXCEPT !.current_layer = @ + 1]
         IN  IF c1.current_layer >= c1.no_of_layers
             THEN [c1 EXCEPT !.training_complete = 1]
             ELSE c1
    ELSE c

\* the end of conv_update_training_error: has the training for this layer
\* been completed?  threshold is error_threshold[layer_index].
conv_layer_completed(c, threshold) ==
    IF c.BPerror < threshold
    THEN \* reset the error and move to the next layer
         LET c1 == [c EXCEPT !.BPerror = BPERROR_UNSET,
                             !.current_layer = @ + 1]
         IN  IF c1.current_layer >= c1.no_of_layers
             THEN [c1 EXCEPT !.training_complete = 1]
             ELSE c1
    ELSE c

\* a variant of conv_update_training_error: the first sample is compared
\* with the threshold as well
conv_update_training_error_first(layer_index, BPerror, c, indet) ==
    IF c.training_complete # 0 THEN c
    ELSE IF layer_index < get_max_layer(c) - 1 THEN c
    ELSE
    LET threshold == IF layer_index \in DOMAIN c.error_threshold
                     THEN c.error_threshold[layer_index] ELSE indet
    IN  IF c.BPerror < 0
        THEN conv_layer_completed([c EXCEPT !.BPerror = BPerror], threshold)
        ELSE
        LET c1 == [c EXCEPT !.BPerror = running_average(@, BPerror)]
            c2 == conv_update_history(c1)
            c3 == [c2 EXCEPT !.itterations = IF @ < UINT_MAX THEN @ + 1 ELSE @]
        IN  conv_layer_completed(c3, threshold)

\* a variant of conv_update_training_error: the error is updated also once
\* training is complete
conv_update_training_error_always(layer_index, BPerror, c, indet) ==
    IF layer_index < get_max_layer(c) - 1 THEN c
    ELSE IF c.BPerror < 0 THEN [c EXCEPT !.BPerror = BPerror]
    ELSE
    LET c1 == [c EXCEPT !.BPerror = running_average(@, BPerror)]
        c2 == conv_update_history(c1)
        c3 == [c2 EXCEPT !.itterations = IF @ < UINT_MAX THEN @ + 1 ELSE @]
        threshold == IF layer_index \in DOMAIN c.error_threshold
                     THEN c.error_threshold[layer_index] ELSE indet
    IN  conv_layer_completed(c3, threshold)

\* conv_update_training_error.  indet is the value read from
\* error_threshold[layer_index] when layer_index is no layer of the pipeline
\* (an element conv_init did not set).
conv_update_training_error(layer_index, BPerror, c, indet) ==
    IF c.training_complete # 0 THEN c
    ELSE IF layer_index < get_max_layer(c) - 1 THEN c
    ELSE IF c.BPerror < 0 THEN [c EXCEPT !.BPerror = BPerror]
    ELSE
    LET c1 == [c EXCEPT !.BPerror = running_average(@, BPerror)]
        c2 == conv_update_history(c1)
        c3 == [c2 EXCEPT !.itterations = IF @ < UINT_MAX THEN @ + 1 ELSE @]
        threshold == IF layer_index \in DOMAIN c.error_threshold
                     THEN c.error_threshold[layer_index] ELSE indet
    IN  conv_layer_completed(c3, threshold)

\* conv_img_initial; [retval, conv, BPerror, learnt]
conv_img_initial(img, c, BPerror, use_dropouts) ==
    LET patch_radius == conv_patch_radius(0, c)
        learning == c.enable_learning # 0
    IN
    With(features_learn_from_image(
             conv_layer_width(0, c, BEFORE_POOLING),
             conv_layer_height(0, c, BEFORE_POOLING),
             patch_radius,
             c.inputs_across, c.inputs_down, c.inputs_depth, img,
             convolution_layer_units(0, c),
             c.layer[0].autocoder), LAMBDA lr :
    With(IF learning THEN [c EXCEPT !.layer[0].autocoder = lr.ac] ELSE c,
         LAMBDA c1 :
    With(features_convolve_image(
             conv_layer_width(0, c1, BEFORE_POOLING),
             conv_layer_height(0, c1, BEFORE_POOLING),
             patch_radius,
             c1.inputs_across, c1.inputs_down, c1.inputs_depth, img,
             convolution_layer_units(0, c1),
             c1.layer[0].convolution,
             c1.layer[0].autocoder,
             use_dropouts), LAMBDA cv :
    With([c1 EXCEPT !.layer[0].autocoder = cv.ac,
                    !.layer[0].convolution = cv.layer], LAMBDA c2 :
    With(IF learning THEN BPerror + lr.BPerror ELSE BPerror, LAMBDA err :
        IF learning /\ lr.retval # 0
        THEN [retval |-> -1, conv |-> c1, BPerror |-> BPerror, learnt |-> TRUE]
        ELSE IF cv.retval # 0
        THEN [retval |-> -2, conv |-> c2, BPerror |-> err, learnt |-> learning]
        ELSE [retval |-> 0, conv |-> c2, BPerror |-> err,
              learnt |-> learning])))))

\* a variant of conv_subsequent_depth: the feature count of the previous
\* layer, whose pooling buffer is the input
conv_subsequent_depth_previous(c, layer_index) ==
    conv_layer_features(c, layer_index - 1)

\* the depth with which conv_subsequent reads the source of layer
\* layer_index, the pooled buffer of layer layer_index-1
conv_subsequent_depth(c, layer_index) == conv_layer_features(c, layer_index)

\* conv_subsequent; [retval, conv, BPerror, learnt]
conv_subsequent(c, layer_index, BPerror) ==
    IF layer_index < 1
    THEN [retval |-> -3, conv |-> c, BPerror |-> BPerror, learnt |-> FALSE]
    ELSE
    LET patch_radius == conv_patch_radius(layer_index, c)
        learning == c.enable_learning # 0
        use_dropouts == IF learning THEN 1 ELSE 0
    IN
    With(features_learn(
             conv_layer_width(layer_index, c, BEFORE_POOLING),
             conv_layer_height(layer_index, c, BEFORE_POOLING),
             patch_radius,
             conv_layer_width(layer_index-1, c, AFTER_POOLING),
             conv_layer_height(layer_index-1, c, AFTER_POOLING),
             conv_subsequent_depth(c, layer_index),
             c.layer[layer_index-1].pooling,
             convolution_layer_units(layer_index, c),
             c.layer[layer_index].autocoder), LAMBDA lr :
    With(IF learning THEN [c EXCEPT !.layer[layer_index].autocoder = lr.ac]
         ELSE c, LAMBDA c1 :
    With(features_convolve(
             conv_layer_width(layer_index, c1, BEFORE_POOLING),
             conv_layer_height(layer_index, c1, BEFORE_POOLING),
             patch_radius,
             conv_layer_width(layer_index-1, c1, AFTER_POOLING),
             conv_layer_height(layer_index-1, c1, AFTER_POOLING),
             conv_subsequent_depth(c1, layer_index),
             c1.layer[layer_index-1].pooling,
             convolution_layer_units(layer_index, c1),
             c1.layer[layer_index].convolution,
             c1.layer[layer_index].autocoder,
             use_dropouts), LAMBDA cv :
    With([c1 EXCEPT !.layer[layer_index].autocoder = cv.ac,
                    !.layer[layer_index].convolution = cv.layer], LAMBDA c2 :
    With(IF learning THEN BPerror + lr.BPerror ELSE BPerror, LAMBDA err :
        IF learning /\ lr.retval # 0
        THEN [retval |-> -4, conv |-> c1, BPerror |-> BPerror, learnt |-> TRUE]
        ELSE IF cv.retval # 0
        THEN [retval |-> -5, conv |-> c2, BPerror |-> err, learnt |-> learning]
        ELSE [retval |-> 0, conv |-> c2, BPerror |-> err,
              learnt |-> learning])))))

\* the layer loop of conv_img, COUNTUP(i, max_layer) with max_layer read
\* once on entry; st is [retval, conv, learnt, updated, errors] where learnt
\* is the set of layers for which feature learning was called, updated the
\* set of layers for which conv_update_training_error was called, and
\* errors[i] the BPerror it was called with
RECURSIVE conv_img_from(_, _, _, _, _)
conv_img_from(st, i, max_layer, img, use_dropouts) ==
    IF i >= max_layer \/ st.retval # 0 THEN st
    ELSE
    With(conv_enable_learning(i, st.conv), LAMBDA c0 :
    With(IF i = 0 THEN conv_img_initial(img, c0, 0, use_dropouts)
         ELSE conv_subsequent(c0, i, 0), LAMBDA r :
    With(IF r.learnt THEN st.learnt \cup {i} ELSE st.learnt, LAMBDA learnt :
    With(conv_update_training_error(i, r.BPerror, r.conv, 0), LAMBDA c1 :
    With(pooling_from_flt_to_flt(
             conv_layer_features(c1, i),
             conv_layer_width(i, c1, BEFORE_POOLING),
             conv_layer_height(i, c1, BEFORE_POOLING),
             c1.layer[i].convolution,
             conv_layer_width(i, c1, AFTER_POOLING),
             conv_layer_height(i, c1, AFTER_POOLING),
             c1.layer[i].pooling), LAMBDA p :
        conv_img_from(
            IF r.retval # 0
            THEN [st EXCEPT !.retval = r.retval, !.conv = r.conv,
                            !.learnt = learnt]
            ELSE IF p.retval # 0
            THEN [st EXCEPT !.retval = -6, !.conv = c1, !.learnt = learnt,
                            !.updated = @ \cup {i},
                            !.errors = @ @@ (i :> r.BPerror)]
            ELSE [st EXCEPT !.conv = [c1 EXCEPT !.layer[i].pooling = p.layer1],
                            !.learnt = learnt,
                            !.updated = @ \cup {i},
                            !.errors = @ @@ (i :> r.BPerror)],
            i + 1, max_layer, img, use_dropouts))))))

\* conv_img; [retval, conv, learnt, updated, errors]
conv_img(img, c, use_dropouts) ==
    conv_img_from([retval |-> 0, conv |-> c, learnt |-> {}, updated |-> {},
                   errors |-> << >>],
                  0, get_max_layer(c), img, use_dropouts)

(***************************************************************************)
(* Save and load (autocoder.c, deeplearn_conv.c).  A file is the sequence   *)
(* of the items written to it; every read macro has the item size of the   *)
(* write macro that wrote the field, so an item read is the item written.  *)
(***************************************************************************)

\* the first n elements of an array, as written by fwrite
ItemsOf(arr, n) == [k \in 1..n |-> arr[k-1]] \o << >>

\* fread of n items at position pos: the number of items read.  The count
\* is a size_t, so a negative n asks for more items than any file holds.
ItemsRead(fp, pos, n) ==
    LET left == IF Len(fp) - pos + 1 > 0 THEN Len(fp) - pos + 1 ELSE 0
    IN  IF n >= 0 /\ left >= n THEN n ELSE left

\* a buffer after fread stored count items from position pos at its start;
\* items beyond the end of the buffer do not land in it
ReadInto(arr, fp, pos, count) ==
    Array([k \in DOMAIN arr |-> IF k < count THEN fp[pos + k] ELSE arr[k]])

\* the number of items fread stored beyond the end of the buffer
Overrun(arr, count) ==
    IF count > Cardinality(DOMAIN arr) THEN count - Cardinality(DOMAIN arr)
    ELSE 0

\* a variant of autocoder_save: last_weight_change is written before weights
autocoder_save_swapped(ac) ==
    << ac.no_of_inputs, ac.no_of_hiddens, ac.random_seed, ac.dropout_percent >>
    \o ItemsOf(ac.last_weight_change, ac.no_of_inputs * ac.no_of_hiddens)
    \o ItemsOf(ac.weights, ac.no_of_inputs * ac.no_of_hiddens)
    \o ItemsOf(ac.bias, ac.no_of_hiddens)
    \o ItemsOf(ac.last_bias_change, ac.no_of_hiddens)
    \o << ac.learning_rate, ac.noise, ac.itterations >>

\* autocoder_save: the items written, in order.  Writes are taken to succeed.
autocoder_save(ac) ==
    << ac.no_of_inputs, ac.no_of_hiddens, ac.random_seed, ac.dropout_percent >>
    \o ItemsOf(ac.weights, ac.no_of_inputs * ac.no_of_hiddens)
    \o ItemsOf(ac.last_weight_change, ac.no_of_inputs * ac.no_of_hiddens)
    \o ItemsOf(ac.bias, ac.no_of_hiddens)
    \o ItemsOf(ac.last_bias_change, ac.no_of_hiddens)
    \o << ac.learning_rate, ac.noise, ac.itterations >>

\* autocoder_load from position pos; [retval, ac, pos, overrun] where overrun
\* counts the items stored beyond the end of the autocoder's buffers
autocoder_load(fp, pos, ac, initialise) ==
    LET has(q) == q <= Len(fp)
        no_of_inputs == fp[pos]
        no_of_hiddens == fp[pos + 1]
        random_seed == fp[pos + 2]
        ac1 == IF initialise # 0
               THEN autocoder_init(no_of_inputs, no_of_hiddens, random_seed)
               ELSE [ac EXCEPT !.no_of_inputs = no_of_inputs,
                               !.no_of_hiddens = no_of_hiddens,
                               !.random_seed = random_seed]
        ac2 == [ac1 EXCEPT !.dropout_percent = fp[pos + 3]]
        pw == pos + 4
        cw == ItemsRead(fp, pw, no_of_inputs * no_of_hiddens)
        ac3 == [ac2 EXCEPT !.weights = ReadInto(@, fp, pw, cw)]
        ow == Overrun(ac2.weights, cw)
        pl == pw + cw
        cl == ItemsRead(fp, pl, no_of_inputs * no_of_hiddens)
        ac4 == [ac3 EXCEPT !.last_weight_change = ReadInto(@, fp, pl, cl)]
        ol == ow + Overrun(ac3.last_weight_change, cl)
        pb == pl + cl
        cb == ItemsRead(fp, pb, no_of_hiddens)
        ac5 == [ac4 EXCEPT !.bias = ReadInto(@, fp, pb, cb)]
        ob == ol + Overrun(ac4.bias, cb)
        pc == pb + cb
        cc == ItemsRead(fp, pc, no_of_hiddens)
        ac6 == [ac5 EXCEPT !.last_bias_change = ReadInto(@, fp, pc, cc)]
        oc == ob + Overrun(ac5.last_bias_change, cc)
        pr == pc + cc
        res(retval, a, q, o) ==
            [retval |-> retval, ac |-> a, pos |-> q, overrun |-> o]
    IN  IF ~has(pos) THEN res(-1, ac, pos, 0)
        ELSE IF ~has(pos + 1) THEN res(-2, ac, pos + 1, 0)
        ELSE IF ~has(pos + 2) THEN res(-3, ac, pos + 2, 0)
        ELSE IF ~has(pos + 3) THEN res(-5, ac1, pos + 3, 0)
        ELSE IF cw = 0 THEN res(-6, ac2, pw, 0)
        ELSE IF cl = 0 THEN res(-7, ac3, pl, ow)
        ELSE IF cb = 0 THEN res(-8, ac4, pb, ol)
        ELSE IF cc = 0 THEN res(-9, ac5, pc, ob)
        ELSE IF ~has(pr) THEN res(-10, ac6, pr, oc)
        ELSE IF ~has(pr + 1)
        THEN res(-11, [ac6 EXCEPT !.learning_rate = fp[pr]], pr + 1, oc)
        ELSE IF ~has(pr + 2)
        THEN res(-12, [ac6 EXCEPT !.learning_rate = fp[pr],
                                  !.noise = fp[pr + 1]], pr + 2, oc)
        ELSE res(0, [ac6 EXCEPT !.learning_rate = fp[pr],
                                !.noise = fp[pr + 1],
                                !.itterations = fp[pr + 2]], pr + 3, oc)

\* the layer loop of conv_save, layers i, i+1, ..
RECURSIVE save_layers(_, _, _)
save_layers(fp, i, c) ==
    IF i >= c.no_of_layers THEN fp
    ELSE save_layers(fp \o autocoder_save(c.layer[i].autocoder)
                            \o << c.layer[i].units_across,
                                  c.layer[i].units_down,
                                  c.layer[i].pooling_factor >>,
                     i + 1, c)

\* conv_save: [retval, fp] (fp: the file's contents).  enable_learning and training_complete are
\* written as one byte each.
conv_save(c) ==
    [retval |-> 0,
     fp |-> save_layers(
         << c.reduction_factor, c.pooling_factor, c.random_seed,
            c.inputs_across, c.inputs_down, c.inputs_depth, c.max_features,
            c.no_of_layers, c.enable_learning % 256, c.current_layer,
            c.training_complete % 256, c.itterations >>
         \o ItemsOf(c.error_threshold, c.no_of_layers),
         0, c)]

\* the layer loop of conv_load; st is [retval, conv, pos, overrun]
RECURSIVE load_layers(_, _, _)
load_layers(st, i, fp) ==
    IF i >= st.conv.no_of_layers \/ st.retval # 0 THEN st
    ELSE
    With(autocoder_load(fp, st.pos, st.conv.layer[i].autocoder, 0), LAMBDA al :
    With(al.pos, LAMBDA q :
    With([st EXCEPT !.conv.layer[i].autocoder = al.ac, !.pos = q,
                    !.overrun = @ + al.overrun], LAMBDA st1 :
        load_layers(
          IF al.retval # 0 THEN [st1 EXCEPT !.retval = -17]
          ELSE IF q > Len(fp) THEN [st1 EXCEPT !.retval = -18]
          ELSE IF q + 1 > Len(fp)
          THEN [st1 EXCEPT !.retval = -19,
                           !.conv.layer[i].units_across = fp[q]]
          ELSE IF q + 2 > Len(fp)
          THEN [st1 EXCEPT !.retval = -20,
                           !.conv.layer[i].units_across = fp[q],
                           !.conv.layer[i].units_down = fp[q + 1]]
          ELSE [st1 EXCEPT !.pos = q + 3,
                           !.conv.layer[i].units_across = fp[q],
                           !.conv.layer[i].units_down = fp[q + 1],
                           !.conv.layer[i].pooling_factor = fp[q + 2]],
          i + 1, fp))))

\* conv_load into a fresh object; [retval, conv, pos, overrun].  The twelve
\* scalars are read first, then the thresholds into a temporary array; then
\* conv_init builds the object from the scalars (its random_seed argument
\* points at conv->random_seed itself), and the layer records are read into
\* the buffers conv_init allocated.  A failure among the scalars leaves no
\* buffer allocated (conv is << >>).
conv_load(fp, garbage) ==
    LET codes == << -1, -2, -3, -4, -5, -6, -7, -8, -9, -11, -12, -13 >>
        no_of_layers == fp[8]
        cnt == ItemsRead(fp, 13, no_of_layers)
        error_threshold ==
            Array([k \in 0..(no_of_layers-1) |->
                      IF k < cnt THEN fp[13 + k] ELSE garbage])
        r == conv_init(no_of_layers, fp[4], fp[5], fp[6],
                       fp[7], fp[1], fp[2], error_threshold,
                       fp[3], garbage)
        c0 == [r.conv EXCEPT !.random_seed = r.random_seed]
        fail(retval) ==
            [retval |-> retval, conv |-> << >>, pos |-> 0, overrun |-> 0]
    IN  IF Len(fp) < 12 THEN fail(codes[Len(fp) + 1])
        ELSE IF cnt = 0 THEN fail(-15)
        ELSE IF r.retval # 0 THEN fail(-16)
        ELSE load_layers([retval |-> 0, conv |-> c0, pos |-> 13 + cnt,
                          overrun |-> 0], 0, fp)

(***************************************************************************)
(* The pipeline as a state machine: construction, then training steps      *)
(***************************************************************************)

\* bounds of the model
MaxLayers == 2
MaxSteps == 3

\* values stored by FLOATALLOC'ed buffers before their first write
GarbageValues == {7 * FP}

\* the arguments of conv_init that fix the geometry
Configs ==
    { [inputs_across |-> 5, inputs_down |-> 5, inputs_depth |-> 1,
       max_features |-> 1, reduction_factor |-> 1, pooling_factor |-> 1],
      [inputs_across |-> 8, inputs_down |-> 8, inputs_depth |-> 1,
       max_features |-> 2, reduction_factor |-> 2, pooling_factor |-> 2] }

\* error thresholds handed to conv_init, and errors handed to
\* conv_update_training_error by a caller
ThresholdValues == {0, 2 * FP}
ErrorValues == {FP \div 2}

\* the use_dropouts argument the training loop passes to conv_img
UseDropouts == {1}

Seeds == {123}

\* input images: width*height*depth bytes
ImagePatterns == {37}
Image(n, p) == Array([i \in 0..(n-1) |-> (i * p) % 256])

\* no call of the kind has been made
NoCall == [name |-> "none"]

\* the training progress of a pipeline, as a call finds it
Progress(c) ==
    [current_layer |-> c.current_layer,
     training_complete |-> c.training_complete,
     BPerror |-> c.BPerror,
     weights |-> [i \in DOMAIN c.layer |-> c.layer[i].autocoder.weights]]

\* the last call made: its name and return value, the number of training
\* calls made so far, what the call found and what it did
Call(name, retval, steps, c, learnt, updated, errors) ==
    [name |-> name, retval |-> retval, steps |-> steps, before |-> Progress(c),
     learnt |-> learnt, updated |-> updated, errors |-> errors]

Init ==
    /\ \E no_of_layers \in 1..MaxLayers, cfg \in Configs, seed \in Seeds,
          garbage \in GarbageValues :
         \E error_threshold \in [0..(no_of_layers-1) -> ThresholdValues] :
            conv = conv_init(no_of_layers, cfg.inputs_across, cfg.inputs_down,
                             cfg.inputs_depth, cfg.max_features,
                             cfg.reduction_factor, cfg.pooling_factor,
                             error_threshold, seed, garbage).conv
    /\ op = Call("conv_init", 0, 0, conv, {}, {}, << >>)
    /\ file = << >>
    /\ loaded = << >>
    /\ geom = NoCall
    /\ feat = NoCall

\* a training step: conv_img on an image of the pipeline's input geometry
ConvImg ==
    /\ op.steps < MaxSteps
    /\ file = << >>
    /\ \E p \in ImagePatterns, use_dropouts \in UseDropouts :
         \E r \in {conv_img(Image(conv.inputs_across * conv.inputs_down *
                                  conv.inputs_depth, p), conv, use_dropouts)} :
             /\ conv' = r.conv
             /\ op' = Call("conv_img", r.retval, op.steps + 1, conv,
                            r.learnt, r.updated, r.errors)
    /\ UNCHANGED <<file, loaded, geom, feat>>

\* a caller's own call of conv_update_training_error
ConvUpdateTrainingError ==
    /\ op.steps < MaxSteps
    /\ file = << >>
    /\ \E layer_index \in 0..MaxLayers, BPerror \in ErrorValues :
       \E indet \in IF layer_index \in DOMAIN conv.error_threshold
                    THEN {0} ELSE ThresholdValues :
         /\ conv' = conv_update_training_error(layer_index, BPerror, conv, indet)
         /\ op' = Call("conv_update_training_error", 0, op.steps + 1, conv,
                        {}, {layer_index}, (layer_index :> BPerror))
    /\ UNCHANGED <<file, loaded, geom, feat>>

\* what may happen to a saved file before it is loaded: nothing, one more
\* hidden unit in the header of one layer's autocoder record, or the loss
\* of its last item
Tampers(c) ==
    {[kind |-> "none", layer |-> 0], [kind |-> "cut", layer |-> 0]} \cup
    {[kind |-> "hiddens", layer |-> i] : i \in 0..(c.no_of_layers-1)}

\* the position in the file of c of the autocoder record of layer i
RECURSIVE RecordStart(_, _)
RecordStart(c, i) ==
    IF i = 0 THEN 12 + c.no_of_layers + 1
    ELSE RecordStart(c, i - 1) +
         Len(autocoder_save(c.layer[i-1].autocoder)) + 3

FileWith(fp, c, t) ==
    CASE t.kind = "none" -> fp
      [] t.kind = "cut" -> SubSeq(fp, 1, Len(fp) - 1)
      [] t.kind = "hiddens" -> [fp EXCEPT ![RecordStart(c, t.layer) + 1] = @ + 1]

\* conv_save of the pipeline, at the end of its training in this run
ConvSave ==
    /\ file = << >>
    /\ \E r \in {conv_save(conv)} :
         /\ file' = r.fp
         /\ op' = Call("conv_save", r.retval, op.steps, conv, {}, {}, << >>)
    /\ UNCHANGED <<conv, loaded, geom, feat>>

\* conv_load of the file into a fresh object
ConvLoad ==
    /\ file # << >>
    /\ loaded = << >>
    /\ \E t \in Tampers(conv), garbage \in GarbageValues :
       \E r \in {conv_load(FileWith(file, conv, t), garbage)} :
       \* a write beyond a buffer is undefined: the call may still return as
       \* the code goes on, or the process may end inside it
       \E outcome \in IF r.overrun > 0 THEN {"returned", "crashed"}
                      ELSE {"returned"} :
         /\ loaded' = [tamper |-> t, outcome |-> outcome,
                       retval |-> r.retval, conv |-> r.conv,
                       pos |-> r.pos, overrun |-> r.overrun]
         /\ op' = Call("conv_load", r.retval, op.steps, conv, {}, {}, << >>)
    /\ UNCHANGED <<conv, file, geom, feat>>

Next == ConvImg \/ ConvUpdateTrainingError \/ ConvSave \/ ConvLoad

Spec == Init /\ [][Next]_vars

(***************************************************************************)
(* Training progress                                                       *)
(***************************************************************************)

\* C1: in every state reached from a successful conv_init with
\* no_of_layers >= 1 by conv_img and conv_update_training_error calls,
\* 0 <= current_layer <= no_of_layers, and no call decreases current_layer
C1_CurrentLayerMonotone ==
    /\ [](conv.no_of_layers >= 1 =>
            /\ 0 <= conv.current_layer
            /\ conv.current_layer <= conv.no_of_layers)
    /\ [][conv'.current_layer >= conv.current_layer]_vars

\* a call has moved the pipeline to the end of its last layer
C1_Witness ==
    /\ op.name \in {"conv_img", "conv_update_training_error"}
    /\ op.before.current_layer < conv.current_layer
    /\ conv.current_layer = conv.no_of_layers

\* C2: one call of conv_img increases current_layer by at most one,
\* whatever the errors learnt and the thresholds are
C2_StepAdvancesAtMostOne ==
    [][op'.name = "conv_img" =>
         conv'.current_layer <= conv.current_layer + 1]_vars

\* a conv_img call has advanced the pipeline by one layer
C2_Witness ==
    /\ op.name = "conv_img"
    /\ conv.current_layer = op.before.current_layer + 1

Learnt(c, i) ==
    [weights |-> c.layer[i].autocoder.weights,
     bias |-> c.layer[i].autocoder.bias,
     last_weight_change |-> c.layer[i].autocoder.last_weight_change,
     last_bias_change |-> c.layer[i].autocoder.last_bias_change,
     itterations |-> c.layer[i].autocoder.itterations]

\* C4: in one conv_img step, feature learning is performed for layer i
\* exactly when training is not complete and i is current_layer as the step
\* found it; the autocoder of every other layer is left as it was
C4_OnlyCurrentLayerLearns ==
    [][(op'.name = "conv_img" /\ op'.retval = 0) =>
         /\ op'.learnt = IF conv.training_complete # 0 THEN {}
                         ELSE {conv.current_layer}
         /\ \A i \in DOMAIN conv.layer :
              i \notin op'.learnt => Learnt(conv', i) = Learnt(conv, i)]_vars

\* a conv_img step has trained layer 1, changing its weights, with layer 0
\* below it
C4_Witness ==
    /\ op.name = "conv_img"
    /\ op.retval = 0
    /\ op.before.current_layer = 1
    /\ op.learnt = {1}
    /\ conv.layer[1].autocoder.weights # op.before.weights[1]
    /\ conv.layer[0].autocoder.weights = op.before.weights[0]

\* C5: a conv_img step that finds training incomplete and the running error
\* set either brings the updated running error strictly below
\* error_threshold[current_layer], and then leaves the running error unset
\* and current_layer greater by exactly one, or does not, and then leaves
\* current_layer as it was
C5_AdvanceExactlyWhenBelowThreshold ==
    [][(/\ op'.name = "conv_img"
        /\ op'.retval = 0
        /\ conv.training_complete = 0
        /\ conv.BPerror >= 0) =>
         LET layer_index == conv.current_layer
             updated == running_average(conv.BPerror, op'.errors[layer_index])
         IN  IF updated < conv.error_threshold[layer_index]
             THEN /\ conv'.BPerror = BPERROR_UNSET
                  /\ conv'.current_layer = layer_index + 1
             ELSE /\ conv'.BPerror = updated
                  /\ conv'.current_layer = layer_index]_vars

\* a conv_img step found the running error set and advanced the pipeline
C5_Witness ==
    /\ op.name = "conv_img"
    /\ op.before.training_complete = 0
    /\ op.before.BPerror >= 0
    /\ conv.current_layer = op.before.current_layer + 1
    /\ conv.BPerror = BPERROR_UNSET

(***************************************************************************)
(* Save and load                                                           *)
(***************************************************************************)

\* the saved file has been loaded as it was written, and conv_load returned
LoadedAsSaved ==
    /\ loaded # << >>
    /\ loaded.tamper.kind = "none"
    /\ loaded.outcome = "returned"

\* C6: conv_save followed by conv_load into a fresh object yields a
\* pipeline whose current_layer, training_complete and itterations equal
\* the saved ones, whatever the training state saved
C6_ProgressRoundTrip ==
    LoadedAsSaved =>
        /\ loaded.retval = 0
        /\ loaded.conv.current_layer = conv.current_layer
        /\ loaded.conv.training_complete = conv.training_complete
        /\ loaded.conv.itterations = conv.itterations

\* C7: conv_save followed by conv_load reproduces the layer count, the
\* input geometry, the error thresholds, every layer's units_across,
\* units_down and pooling_factor and every layer's autocoder weights and
\* biases; conv_load reads the fields in the order they were written, to
\* the end of the file
C7_GeometryAndWeightsRoundTrip ==
    LoadedAsSaved =>
        /\ loaded.retval = 0
        /\ loaded.pos = Len(file) + 1
        /\ loaded.conv.no_of_layers = conv.no_of_layers
        /\ loaded.conv.inputs_across = conv.inputs_across
        /\ loaded.conv.inputs_down = conv.inputs_down
        /\ loaded.conv.inputs_depth = conv.inputs_depth
        /\ loaded.conv.error_threshold = conv.error_threshold
        /\ DOMAIN loaded.conv.layer = DOMAIN conv.layer
        /\ \A i \in DOMAIN conv.layer :
             /\ loaded.conv.layer[i].units_across = conv.layer[i].units_across
             /\ loaded.conv.layer[i].units_down = conv.layer[i].units_down
             /\ loaded.conv.layer[i].pooling_factor =
                    conv.layer[i].pooling_factor
             /\ loaded.conv.layer[i].autocoder.weights =
                    conv.layer[i].autocoder.weights
             /\ loaded.conv.layer[i].autocoder.bias =
                    conv.layer[i].autocoder.bias

\* a pipeline whose first layer has been trained and left behind was saved
\* and loaded
C7_Witness ==
    /\ LoadedAsSaved
    /\ loaded.retval = 0
    /\ conv.current_layer >= 1
    /\ conv.layer[0].autocoder.itterations > 0
    /\ conv.layer[0].autocoder.last_weight_change #
           conv.layer[0].autocoder.weights

\* C8: when an autocoder record of the file has a hidden-unit count other
\* than that of the autocoder allocated for its layer, conv_load returns a
\* failure status and reads no array payload beyond the allocated buffers
C8_MismatchedRecordRejected ==
    (loaded # << >> /\ loaded.tamper.kind = "hiddens") =>
        /\ loaded.outcome = "returned"
        /\ loaded.retval # 0
        /\ loaded.overrun = 0

(***************************************************************************)
(* Patch geometry: features_patch_coords on its own                        *)
(***************************************************************************)

\* bounds of the grids, patches and sources
MaxSamples == 3
MaxRadius == 2
MaxSide == 5

InitPatch ==
    /\ \E samples_across \in 1..MaxSamples, samples_down \in 1..MaxSamples,
          patch_radius \in 0..MaxRadius,
          width \in 1..MaxSide, height \in 1..MaxSide :
       \E x \in 0..(samples_across-1), y \in 0..(samples_down-1) :
          geom = [name |-> "args", x |-> x, y |-> y,
                  samples_across |-> samples_across,
                  samples_down |-> samples_down,
                  patch_radius |-> patch_radius,
                  width |-> width, height |-> height]
    /\ conv = << >>
    /\ op = NoCall
    /\ file = << >>
    /\ loaded = << >>
    /\ feat = NoCall

\* the call features_patch_coords(x, y, ..., &tx, &ty, &bx, &by)
PatchCoords ==
    /\ geom.name = "args"
    /\ \E r \in {features_patch_coords(geom.x, geom.y, geom.samples_across,
                                      geom.samples_down, geom.patch_radius,
                                      geom.width, geom.height)} :
         geom' = [geom EXCEPT !.name = "features_patch_coords"] @@
                 [retval |-> r.retval, tx |-> r.tx, ty |-> r.ty,
                  bx |-> r.bx, by |-> r.by]
    /\ UNCHANGED <<conv, op, file, loaded, feat>>

NextPatch == PatchCoords

SpecPatch == InitPatch /\ [][NextPatch]_vars

\* the box lies within the source and has 2*patch_radius pixels a side
BoxWithinSource ==
    /\ 0 <= geom.tx /\ geom.tx < geom.bx /\ geom.bx <= geom.width
    /\ 0 <= geom.ty /\ geom.ty < geom.by /\ geom.by <= geom.height
    /\ geom.bx - geom.tx = 2 * geom.patch_radius
    /\ geom.by - geom.ty = 2 * geom.patch_radius

\* C9 as stated: for every grid cell and any patch_radius, a box reported
\* in-bounds satisfies 0 <= tx < bx <= width, 0 <= ty < by <= height and
\* measures 2*patch_radius a side
C9_BoxAnyRadius ==
    (geom.name = "features_patch_coords" /\ geom.retval = 0) =>
        BoxWithinSource

\* C9 for patch_radius >= 1: a box reported in-bounds satisfies
\* 0 <= tx < bx <= width, 0 <= ty < by <= height and measures
\* 2*patch_radius a side
C9_BoxPositiveRadius ==
    (/\ geom.name = "features_patch_coords"
     /\ geom.retval = 0
     /\ geom.patch_radius >= 1) =>
        BoxWithinSource

\* a box of radius 2 was reported in-bounds for a cell that is not the
\* first of its grid
C9_Witness ==
    /\ geom.name = "features_patch_coords"
    /\ geom.retval = 0
    /\ geom.patch_radius = 2
    /\ geom.x >= 1
    /\ geom.y >= 1

(***************************************************************************)
(* Convolution on its own: features_convolve_image and features_convolve   *)
(* into a layer array that already holds something                         *)
(***************************************************************************)

\* numbers of learned features
FeatureCounts == {1, 2}

\* the number of cells by which the layer array may exceed the grid
ExtraCells == {0, 1}

\* what the destination holds before the call: the same value everywhere,
\* or a different value in every element
PriorContents == {"garbage", "ramp"}
Prior(n, p) ==
    Array([k \in 0..(n-1) |-> IF p = "garbage" THEN 7 * FP ELSE k + 1])

\* a source of the given kind: bytes for "img", floats for "flt"
Source(kind, n) ==
    IF kind = "img" THEN Image(n, 37)
    ELSE Array([k \in 0..(n-1) |-> ((k * 37) % 256) * (FP \div 256)])

InitConvolve ==
    /\ \E kind \in {"img", "flt"},
          samples_across \in 1..MaxSamples, samples_down \in 1..MaxSamples,
          patch_radius \in 1..MaxRadius,
          width \in 2..MaxSide, height \in 2..MaxSide,
          nf \in FeatureCounts, extra \in ExtraCells,
          p \in PriorContents, use_dropouts \in {0, 1}, seed \in Seeds :
          feat = [name |-> "args", kind |-> kind,
                  samples_across |-> samples_across,
                  samples_down |-> samples_down,
                  patch_radius |-> patch_radius,
                  width |-> width, height |-> height, depth |-> 1,
                  src |-> Source(kind, width * height),
                  layer_units |-> (samples_across * samples_down + extra) * nf,
                  layer |-> Prior((samples_across * samples_down + extra) * nf, p),
                  ac |-> autocoder_init(patch_radius * patch_radius * 4, nf, seed),
                  use_dropouts |-> use_dropouts]
    /\ conv = << >>
    /\ op = NoCall
    /\ file = << >>
    /\ loaded = << >>
    /\ geom = NoCall

\* the call features_convolve_image(...) or features_convolve(...)
Convolve ==
    /\ feat.name = "args"
    /\ \E r \in {ConvolveSource(feat.kind, feat.samples_across,
                               feat.samples_down, feat.patch_radius,
                               feat.width, feat.height, feat.depth, feat.src,
                               feat.layer_units, feat.layer, feat.ac,
                               feat.use_dropouts)} :
         feat' = [feat EXCEPT !.name = "convolve"] @@
                 [retval |-> r.retval, after |-> r.layer, ac_after |-> r.ac]
    /\ UNCHANGED <<conv, op, file, loaded, geom>>

NextConvolve == Convolve

SpecConvolve == InitConvolve /\ [][NextConvolve]_vars

\* the patch coordinates of cell k of the grid of the call
CellCoords(k) ==
    features_patch_coords(k % feat.samples_across, k \div feat.samples_across,
                          feat.samples_across, feat.samples_down,
                          feat.patch_radius, feat.width, feat.height)

\* the responses of the features to the patch of in-bounds cell k, without
\* dropouts
CellResponses(k) ==
    LET pc == CellCoords(k)
        sc == ScanSource(feat.kind, feat.src, feat.width, feat.depth,
                         pc.tx, pc.ty, pc.bx, pc.by, feat.ac)
    IN  autocoder_encode(sc.ac, Arr(feat.ac.no_of_hiddens, 0), 0).encoded

\* C10: after a convolve into a layer array, every element of the slice of
\* a cell whose patch lies outside the source is zero, whatever the slice
\* held before, the slice of every other cell holds that cell's own
\* feature responses, and the elements beyond the grid are left as they were
C10_OutsideCellsZeroed ==
    (feat.name = "convolve" /\ feat.retval = 0) =>
        /\ \A k \in 0..(feat.samples_across * feat.samples_down - 1) :
           \A f \in 0..(feat.ac.no_of_hiddens - 1) :
             LET n == k * feat.ac.no_of_hiddens + f
             IN  /\ CellCoords(k).retval # 0 => feat.after[n] = 0
                 /\ (CellCoords(k).retval = 0 /\ feat.use_dropouts = 0) =>
                        feat.after[n] = CellResponses(k)[f]
        /\ \A n \in (feat.samples_across * feat.samples_down *
                      feat.ac.no_of_hiddens)..(feat.layer_units - 1) :
             feat.after[n] = feat.layer[n]

\* a convolve has met a cell outside the source, whose slice held something
\* other than zero, next to a cell inside it
C10_Witness ==
    /\ feat.name = "convolve"
    /\ feat.retval = 0
    /\ feat.ac.no_of_hiddens = 2
    /\ \E k \in 1..(feat.samples_across * feat.samples_down - 1) :
         /\ CellCoords(k).retval # 0
         /\ feat.layer[k * 2] # 0 /\ feat.layer[k * 2 + 1] # 0
         /\ feat.after[k * 2] = 0 /\ feat.after[k * 2 + 1] = 0
         /\ CellCoords(k - 1).retval = 0
         /\ feat.after[(k - 1) * 2] # 0

(***************************************************************************)
(* Pooling and unpooling on their own                                      *)
(***************************************************************************)

\* bound of the layer sides
MaxPoolSide == 3

\* depths of the layers
PoolDepths == {1, 2}

\* what a source layer holds: activations (never negative), or floats of
\* either sign such as an unwritten element of a FLOATALLOC'ed buffer
LayerContents == {"activations", "signed"}
Layer(n, p) ==
    Array([k \in 0..(n-1) |->
              IF p = "activations" THEN ((k * 37) % 256) * 3
              ELSE -(((k * 37) % 256) * 3) - 1])

InitPool ==
    /\ \E depth \in PoolDepths,
          layer0_across \in 1..MaxPoolSide, layer0_down \in 1..MaxPoolSide,
          layer1_across \in 1..MaxPoolSide, layer1_down \in 1..MaxPoolSide,
          c \in LayerContents, p \in PriorContents :
          geom = [name |-> "args", depth |-> depth,
                  layer0_across |-> layer0_across,
                  layer0_down |-> layer0_down,
                  layer0 |-> Layer(layer0_across * layer0_down * depth, c),
                  layer1_across |-> layer1_across,
                  layer1_down |-> layer1_down,
                  layer1 |-> Prior(layer1_across * layer1_down * depth, p),
                  contents |-> c, prior |-> p]
    /\ conv = << >>
    /\ op = NoCall
    /\ file = << >>
    /\ loaded = << >>
    /\ feat = NoCall

\* the call pooling_from_flt_to_flt(depth, .., layer0, .., layer1)
Pool ==
    /\ geom.name = "args"
    /\ \E r \in {pooling_from_flt_to_flt(geom.depth, geom.layer0_across,
                     geom.layer0_down, geom.layer0, geom.layer1_across,
                     geom.layer1_down, geom.layer1)} :
         geom' = [geom EXCEPT !.name = "pool"] @@
                 [retval |-> r.retval, pooled |-> r.layer1]
    /\ UNCHANGED <<conv, op, file, loaded, feat>>

\* the call unpooling_from_flt_to_flt(depth, .., layer0, .., layer1): layer0
\* is the pooled layer and layer1 the original layer to fill
Unpool ==
    /\ geom.name = "args"
    /\ \E r \in {unpooling_from_flt_to_flt(geom.depth, geom.layer0_across,
                     geom.layer0_down, geom.layer0, geom.layer1_across,
                     geom.layer1_down, geom.layer1)} :
         geom' = [geom EXCEPT !.name = "unpool"] @@
                 [retval |-> r.retval, unpooled |-> r.original_layer]
    /\ UNCHANGED <<conv, op, file, loaded, feat>>

\* after a successful pooling, the call of unpooling_from_flt_to_flt that
\* takes the pooled layer back to the dimensions of layer0, into a buffer of
\* its own
UnpoolBack ==
    /\ geom.name = "pool"
    /\ geom.retval = 0
    /\ \E r \in {unpooling_from_flt_to_flt(geom.depth, geom.layer1_across,
                     geom.layer1_down, geom.pooled, geom.layer0_across,
                     geom.layer0_down,
                     Prior(geom.layer0_across * geom.layer0_down * geom.depth,
                           geom.prior))} :
         geom' = [geom EXCEPT !.name = "unpoolback"] @@
                 [unretval |-> r.retval, unpooled |-> r.original_layer]
    /\ UNCHANGED <<conv, op, file, loaded, feat>>

\* pooling_from_flt_to_flt again, of the buffer the unpooling was to fill
Repool ==
    /\ geom.name = "unpoolback"
    /\ \E r \in {pooling_from_flt_to_flt(geom.depth, geom.layer0_across,
                     geom.layer0_down, geom.unpooled, geom.layer1_across,
                     geom.layer1_down, geom.layer1)} :
         geom' = [geom EXCEPT !.name = "repool"] @@
                 [reretval |-> r.retval, repooled |-> r.layer1]
    /\ UNCHANGED <<conv, op, file, loaded, feat>>

NextPool == Pool \/ Unpool \/ UnpoolBack \/ Repool

SpecPool == InitPool /\ [][NextPool]_vars

\* the numbers of cells of the two layers of the call
Layer0Cells == geom.layer0_across * geom.layer0_down
Layer1Cells == geom.layer1_across * geom.layer1_down

\* C11: pooling_from_flt_to_flt returns an error and leaves the destination
\* as it was when the destination has more cells than the source; when the
\* two have the same number of cells it returns 0 and the destination is a
\* copy of the source
C11_PoolSizes ==
    geom.name = "pool" =>
        /\ Layer1Cells > Layer0Cells =>
               (geom.retval # 0 /\ geom.pooled = geom.layer1)
        /\ Layer1Cells = Layer0Cells =>
               (geom.retval = 0 /\ geom.pooled = geom.layer0)

\* a pooling between layers of equal cell counts and different shapes has
\* replaced what the destination held by the source
C11_Witness ==
    /\ geom.name = "pool"
    /\ Layer1Cells = Layer0Cells
    /\ geom.layer1_across # geom.layer0_across
    /\ geom.layer1 # geom.layer0
    /\ geom.pooled = geom.layer0

\* the destination cell to which pooling maps source cell k0
\* (dst_coord = src_coord*dst_dim/src_dim on either axis)
PooledCell(k0) ==
    CDiv((k0 \div geom.layer0_across) * geom.layer1_down, geom.layer0_down)
        * geom.layer1_across
    + CDiv((k0 % geom.layer0_across) * geom.layer1_across, geom.layer0_across)

\* the values of channel d of the source cells that map to destination
\* cell k1
SourceValues(k1, d) ==
    {geom.layer0[k0 * geom.depth + d] :
        k0 \in {k \in 0..(Layer0Cells - 1) : PooledCell(k) = k1}}

\* C12: after a pooling into a destination of fewer cells, every
\* destination value that has source cells mapping to it is, per channel,
\* the maximum of their values: one of them, and no less than any of them,
\* whatever the destination held before
C12_PoolIsMaximum ==
    (geom.name = "pool" /\ Layer1Cells < Layer0Cells) =>
        /\ geom.retval = 0
        /\ \A k1 \in 0..(Layer1Cells - 1), d \in 0..(geom.depth - 1) :
             SourceValues(k1, d) # {} =>
                /\ geom.pooled[k1 * geom.depth + d] \in SourceValues(k1, d)
                /\ \A v \in SourceValues(k1, d) :
                       geom.pooled[k1 * geom.depth + d] >= v

\* the greatest element of a non-empty set of numbers
Maximum(S) == CHOOSE v \in S : \A w \in S : v >= w

\* C12 as amended: after a pooling into a destination of fewer cells, every
\* destination value is, per channel, the greater of zero and the maximum
\* of the values of the source cells mapping to it, so no less than any of
\* them, whatever the destination held before
C12_PoolIsMaximumFromZero ==
    (geom.name = "pool" /\ Layer1Cells < Layer0Cells) =>
        /\ geom.retval = 0
        /\ \A k1 \in 0..(Layer1Cells - 1), d \in 0..(geom.depth - 1) :
             /\ geom.pooled[k1 * geom.depth + d] =
                    Maximum(SourceValues(k1, d) \cup {0})
             /\ \A v \in SourceValues(k1, d) :
                    geom.pooled[k1 * geom.depth + d] >= v

\* a pooling has reduced a 3x2 layer of two channels to 2x1 over a
\* destination that held something else, and a destination value is
\* greater than one of the source values mapping to it
C12_Witness ==
    /\ geom.name = "pool"
    /\ geom.retval = 0
    /\ geom.layer0_across = 3 /\ geom.layer0_down = 2
    /\ geom.layer1_across = 2 /\ geom.layer1_down = 1
    /\ geom.depth = 2
    /\ geom.pooled # geom.layer1
    /\ \E v \in SourceValues(0, 1) : geom.pooled[1] > v

\* the pooled cell that corresponds to cell k1 of the original layer of an
\* unpooling from layer0 to layer1 (src_coord = dst_coord*src_dim/dst_dim)
UnpooledFrom(k1) ==
    CDiv((k1 \div geom.layer1_across) * geom.layer0_down, geom.layer1_down)
        * geom.layer0_across
    + CDiv((k1 % geom.layer1_across) * geom.layer0_across, geom.layer1_across)

\* C13: unpooling_from_flt_to_flt returns 0 whenever the original layer it
\* fills has at least as many cells as the pooled layer it reads, and then
\* every cell of the original layer holds, per channel, the value of its
\* proportionally down-scaled pooled cell
C13_UnpoolFillsLargerLayer ==
    (geom.name = "unpool" /\ Layer1Cells >= Layer0Cells) =>
        /\ geom.retval = 0
        /\ \A k1 \in 0..(Layer1Cells - 1), d \in 0..(geom.depth - 1) :
             geom.unpooled[k1 * geom.depth + d] =
                 geom.layer0[UnpooledFrom(k1) * geom.depth + d]

\* C14: for a source layer of non-negative values and a destination with
\* smaller dimensions, pooling, unpooling back to the dimensions of the
\* source and pooling again gives the pooled layer of the first pooling, and
\* the unpooled layer holds one value per channel over each pooling region
C14_RepoolIsIdempotent ==
    (/\ geom.name = "repool"
     /\ geom.contents = "activations"
     /\ geom.layer1_across <= geom.layer0_across
     /\ geom.layer1_down <= geom.layer0_down
     /\ Layer1Cells < Layer0Cells) =>
        /\ geom.unretval = 0
        /\ geom.reretval = 0
        /\ geom.repooled = geom.pooled
        /\ \A k0 \in 0..(Layer0Cells - 1), d \in 0..(geom.depth - 1) :
             geom.unpooled[k0 * geom.depth + d] =
                 geom.pooled[PooledCell(k0) * geom.depth + d]

(***************************************************************************)
(* Feature learning on its own: features_learn_from_image / features_learn *)
(***************************************************************************)

InitLearn ==
    /\ \E kind \in {"img", "flt"},
          samples_across \in 1..MaxSamples, samples_down \in 1..MaxSamples,
          patch_radius \in 1..MaxRadius,
          width \in 2..MaxSide, height \in 2..MaxSide,
          nf \in FeatureCounts, seed \in Seeds :
          feat = [name |-> "args", kind |-> kind,
                  samples_across |-> samples_across,
                  samples_down |-> samples_down,
                  patch_radius |-> patch_radius,
                  width |-> width, height |-> height, depth |-> 1,
                  src |-> Source(kind, width * height),
                  layer_units |-> samples_across * samples_down * nf,
                  ac |-> autocoder_init(patch_radius * patch_radius * 4, nf, seed)]
    /\ conv = << >>
    /\ op = NoCall
    /\ file = << >>
    /\ loaded = << >>
    /\ geom = NoCall

\* the call features_learn_from_image(..., &BPerror) or features_learn(...)
Learn ==
    /\ feat.name = "args"
    /\ \E r \in {LearnSource(feat.kind, feat.samples_across,
                            feat.samples_down, feat.patch_radius,
                            feat.width, feat.height, feat.depth, feat.src,
                            feat.layer_units, feat.ac)} :
         feat' = [feat EXCEPT !.name = "learn"] @@
                 [retval |-> r.retval, BPerror |-> r.BPerror,
                  ac_after |-> r.ac]
    /\ UNCHANGED <<conv, op, file, loaded, geom>>

NextLearn == Learn

SpecLearn == InitLearn /\ [][NextLearn]_vars

\* the grid cells of the call whose patch lies within the source
InBoundsCells ==
    {k \in 0..(feat.samples_across * feat.samples_down - 1) :
        CellCoords(k).retval = 0}

\* the sum of the autocoder's errors over the patches the call trained on,
\* in the order the call visits them
PatchErrorSum ==
    learn_from([retval |-> 0, ac |-> feat.ac, BPerror |-> 0],
               feat.samples_across * feat.samples_down - 1, feat.kind,
               feat.samples_across, feat.samples_down, feat.patch_radius,
               feat.width, feat.height, feat.depth, feat.src).BPerror

\* C15: the error a successful learning call returns is the sum of the
\* per-patch autocoder errors divided by the number of in-bounds grid
\* cells; cells skipped as out of bounds add nothing to the divisor
C15_MeanOverInBoundsCells ==
    (feat.name = "learn" /\ feat.retval = 0 /\ InBoundsCells # {}) =>
        feat.BPerror = CDiv(PatchErrorSum, Cardinality(InBoundsCells))

(***************************************************************************)
(* Construction on its own: conv_init over layer counts and geometries     *)
(***************************************************************************)

\* layer counts asked of conv_init: small ones, and those around the
\* capacity of the layer array
LayerCounts ==
    {1, 2, PREPROCESS_MAX_LAYERS - 1, PREPROCESS_MAX_LAYERS,
     PREPROCESS_MAX_LAYERS + 1}

\* values of max_features: with 4 and more the feature count shrinks from
\* one layer to the next
FeatureMaxima == {1, 2, 4}

InitConstruct ==
    /\ \E no_of_layers \in LayerCounts,
          inputs_across \in {5, 8}, inputs_depth \in {1, 3},
          max_features \in FeatureMaxima,
          reduction_factor \in {1, 2}, pooling_factor \in {1, 2},
          seed \in Seeds, garbage \in GarbageValues :
          op = [name |-> "args", no_of_layers |-> no_of_layers,
                inputs_across |-> inputs_across,
                inputs_down |-> inputs_across,
                inputs_depth |-> inputs_depth,
                max_features |-> max_features,
                reduction_factor |-> reduction_factor,
                pooling_factor |-> pooling_factor,
                error_threshold |-> Arr(no_of_layers, 0),
                random_seed |-> seed, garbage |-> garbage]
    /\ conv = << >>
    /\ file = << >>
    /\ loaded = << >>
    /\ geom = NoCall
    /\ feat = NoCall

\* the call conv_init(no_of_layers, ..., conv, error_threshold, &random_seed)
ConvInit ==
    /\ op.name = "args"
    /\ \E r \in {conv_init(op.no_of_layers, op.inputs_across, op.inputs_down,
                          op.inputs_depth, op.max_features,
                          op.reduction_factor, op.pooling_factor,
                          op.error_threshold, op.random_seed, op.garbage)} :
         /\ conv' = r.conv
         /\ op' = [op EXCEPT !.name = "conv_init"] @@ [retval |-> r.retval]
    /\ UNCHANGED <<file, loaded, geom, feat>>

NextConstruct == ConvInit

SpecConstruct == InitConstruct /\ [][NextConstruct]_vars

\* the input depth for which the autocoder of layer i was built: its number
\* of inputs over the number of units of a patch
AutocoderDepth(c, i) ==
    c.layer[i].autocoder.no_of_inputs \div
        (conv_patch_radius(i, c) * conv_patch_radius(i, c) * 4)

\* C16: after conv_init, the input depth of the autocoder of layer 0 is
\* the depth of the input image, and for every layer i > 0 both the input
\* depth of its autocoder and the depth with which a step reads its source
\* are the feature count of layer i-1, the depth of the pooled buffer read
C16_LayerDepthIsPreviousFeatures ==
    (op.name = "conv_init" /\ op.retval = 0) =>
        /\ AutocoderDepth(conv, 0) = conv.inputs_depth
        /\ \A i \in 1..(conv.no_of_layers - 1) :
             /\ AutocoderDepth(conv, i) = conv_layer_features(conv, i - 1)
             /\ conv_subsequent_depth(conv, i) = conv_layer_features(conv, i - 1)

\* C18: conv_init fails exactly when the requested layer count exceeds
\* PREPROCESS_MAX_LAYERS, the capacity of the layer array: every count from
\* 1 up to and including PREPROCESS_MAX_LAYERS is accepted
C18_RejectsOnlyAboveCapacity ==
    op.name = "conv_init" =>
        (op.retval # 0 <=> op.no_of_layers > PREPROCESS_MAX_LAYERS)

(***************************************************************************)
(* Deconvolution (deeplearn_features.c, deeplearn_conv.c)                  *)
(***************************************************************************)

\* the index of the weight create_image_patch reads for hidden unit i and
\* channel d of the pixel at index_img of the image
weight_index(i, index_img, d) == index_img + d

\* feature_autocoder->weights[n] as create_image_patch reads it: n is an
\* index of the image, and a read beyond the weights yields whatever the
\* memory after them holds
PatchWeight(ac, n, garbage) ==
    IF n \in DOMAIN ac.weights THEN ac.weights[n] ELSE garbage

\* create_image_patch: every hidden unit's output times the weight is
\* added to every value of the patch
create_image_patch(img, img_width, img_depth, tx, ty, bx, by, ac, garbage) ==
    [retval |-> 0,
     img |-> Array([n \in DOMAIN img |->
        LET x == (n \div img_depth) % img_width
            y == (n \div img_depth) \div img_width
            w(i) == PatchWeight(ac, weight_index(i, n - (n % img_depth),
                                                 n % img_depth), garbage)
            term(i) == Mul(ac.hiddens[ac.no_of_hiddens - 1 - i],
                           w(ac.no_of_hiddens - 1 - i))
        IN  IF y >= ty /\ y < by /\ x >= tx /\ x < bx
            THEN img[n] + SumDown(term, ac.no_of_hiddens)
            ELSE img[n]])]

\* the cell loop of features_deconvolve, cells from the last down to 0.
\* st is [retval, img, ac]: a cell whose patch is out of bounds sets the
\* hidden units from its slice of the layer, a cell whose patch is in
\* bounds has the patch added to the image
RECURSIVE deconvolve_from(_, _, _, _, _, _, _, _, _, _)
deconvolve_from(st, k, samples_across, samples_down, patch_radius, img_width, img_height, img_depth, layer, garbage) ==
    IF k < 0 \/ st.retval # 0 THEN st
    ELSE
    LET nf == st.ac.no_of_hiddens
        fy == k \div samples_across
        fx == k % samples_across
        index_layer == (fy * samples_across + fx) * nf
    IN
    With(features_patch_coords(fx, fy, samples_across, samples_down,
                               patch_radius, img_width, img_height), LAMBDA pc :
    With(create_image_patch(st.img, img_width, img_depth,
                            pc.tx, pc.ty, pc.bx, pc.by, st.ac, garbage), LAMBDA cp :
        deconvolve_from(
            IF pc.retval # 0
            THEN [st EXCEPT !.ac.hiddens = Array([f \in 0..(nf-1) |->
                     IF index_layer + f \in DOMAIN layer
                     THEN layer[index_layer + f] ELSE garbage])]
            ELSE IF cp.retval # 0 THEN [st EXCEPT !.retval = -4]
            ELSE [st EXCEPT !.img = cp.img],
            k - 1, samples_across, samples_down, patch_radius,
            img_width, img_height, img_depth, layer, garbage)))

\* features_deconvolve: the size check, the image cleared, the cell loop;
\* [retval, img, ac]
features_deconvolve(samples_across, samples_down, patch_radius, img_width, img_height, img_depth, img, layer_units, layer, ac, garbage) ==
    IF ac.no_of_inputs # patch_radius * patch_radius * 4 * img_depth
    THEN [retval |-> -2, img |-> img, ac |-> ac]
    ELSE deconvolve_from(
            [retval |-> 0,
             img |-> Array([n \in DOMAIN img |->
                        IF n < img_width * img_height * img_depth
                        THEN 0 ELSE img[n]]),
             ac |-> ac],
            samples_across * samples_down - 1, samples_across, samples_down,
            patch_radius, img_width, img_height, img_depth, layer, garbage)

\* the byte features_deconvolve_image stores for the float v
FloatToPixel(v) ==
    IF v > 0 /\ v <= 255 * FP THEN v \div FP
    ELSE IF v > 255 * FP THEN 255 ELSE 0

\* features_deconvolve_image: the size check, the image cleared, the
\* deconvolution into a temporary image of floats, its conversion to bytes
features_deconvolve_image(samples_across, samples_down, patch_radius, img_width, img_height, img_depth, img, layer_units, layer, ac, garbage) ==
    IF ac.no_of_inputs # patch_radius * patch_radius * 4 * img_depth
    THEN [retval |-> -2, img |-> img, ac |-> ac]
    ELSE
    With(features_deconvolve(samples_across, samples_down, patch_radius,
                             img_width, img_height, img_depth,
                             Arr(img_width * img_height * img_depth, 0),
                             layer_units, layer, ac, garbage), LAMBDA r :
        [retval |-> r.retval,
         img |-> Array([n \in DOMAIN img |->
                    IF n >= img_width * img_height * img_depth THEN img[n]
                    ELSE IF r.retval # 0 THEN 0
                    ELSE FloatToPixel(r.img[n])]),
         ac |-> r.ac])

\* the loop of deconv_img from layer_index down to 1: the layer is
\* unpooled into its convolution buffer and deconvolved into the pooling
\* buffer of the layer before it.  st is [conv, status], status the
\* sequence of the values the calls returned
RECURSIVE deconv_layers(_, _, _)
deconv_layers(st, layer_index, garbage) ==
    IF layer_index <= 0 THEN st
    ELSE
    LET c == st.conv IN
    With(unpooling_from_flt_to_flt(
             conv_layer_features(c, layer_index),
             conv_layer_width(layer_index, c, AFTER_POOLING),
             conv_layer_height(layer_index, c, AFTER_POOLING),
             c.layer[layer_index].pooling,
             conv_layer_width(layer_index, c, BEFORE_POOLING),
             conv_layer_height(layer_index, c, BEFORE_POOLING),
             c.layer[layer_index].convolution), LAMBDA un :
    With(features_deconvolve(
             conv_layer_width(layer_index, c, BEFORE_POOLING),
             conv_layer_height(layer_index, c, BEFORE_POOLING),
             conv_patch_radius(layer_index, c),
             conv_layer_width(layer_index - 1, c, AFTER_POOLING),
             conv_layer_height(layer_index - 1, c, AFTER_POOLING),
             conv_layer_features(c, layer_index),
             c.layer[layer_index - 1].pooling,
             convolution_layer_units(layer_index - 1, c),
             un.original_layer,
             c.layer[layer_index - 1].autocoder, garbage), LAMBDA dv :
        deconv_layers(
            [conv |-> [c EXCEPT
                         !.layer[layer_index].convolution = un.original_layer,
                         !.layer[layer_index - 1].pooling = dv.img,
                         !.layer[layer_index - 1].autocoder = dv.ac],
             status |-> st.status \o <<un.retval, dv.retval>>],
            layer_index - 1, garbage)))

\* deconv_img: start_layer is clamped to the highest trained layer, the
\* layers are deconvolved down to layer 0 and layer 0 is deconvolved to the
\* image; what the calls return is not read.  [retval, conv, img, status]
deconv_img(start_layer, c, img, garbage) ==
    LET max_layer == get_max_layer(c)
        start == IF start_layer > max_layer - 1 THEN max_layer - 1
                 ELSE start_layer
    IN
    With(deconv_layers([conv |-> c, status |-> << >>], start, garbage), LAMBDA ls :
    With(features_deconvolve_image(
             conv_layer_width(0, ls.conv, BEFORE_POOLING),
             conv_layer_height(0, ls.conv, BEFORE_POOLING),
             conv_patch_radius(0, ls.conv),
             ls.conv.inputs_across, ls.conv.inputs_down, ls.conv.inputs_depth,
             img, convolution_layer_units(0, ls.conv),
             ls.conv.layer[0].convolution,
             ls.conv.layer[0].autocoder, garbage), LAMBDA di :
        [retval |-> 0,
         conv |-> [ls.conv EXCEPT !.layer[0].autocoder = di.ac],
         img |-> di.img,
         status |-> Append(ls.status, di.retval)]))

(***************************************************************************)
(* Training steps followed by deconvolutions                               *)
(***************************************************************************)

\* deconv_img on an image buffer of the pipeline's input geometry
DeconvImg ==
    /\ op.name \in {"conv_img", "conv_update_training_error"}
    /\ \E start_layer \in 0..MaxLayers, p \in ImagePatterns,
          garbage \in GarbageValues :
         \E r \in {deconv_img(start_layer, conv,
                              Image(conv.inputs_across * conv.inputs_down *
                                    conv.inputs_depth, p), garbage)} :
             /\ conv' = r.conv
             /\ op' = Call("deconv_img", r.retval, op.steps, conv, {}, {}, << >>)
             /\ feat' = [name |-> "deconv_img", start_layer |-> start_layer,
                         img |-> r.img, status |-> r.status]
    /\ UNCHANGED <<file, loaded, geom>>

NextDeconv == ConvImg \/ ConvUpdateTrainingError \/ DeconvImg

SpecDeconv == Init /\ [][NextDeconv]_vars

\* C17: deconv_img returns zero only if every unpooling and deconvolution
\* it made succeeded, and a non-zero status whenever one of them failed
C17_DeconvReportsFailure ==
    op.name = "deconv_img" =>
        (op.retval = 0 <=> \A j \in DOMAIN feat.status : feat.status[j] = 0)

(***************************************************************************)
(* The running error                                                       *)
(***************************************************************************)

\* the layer a caller's conv_update_training_error was called for, and the
\* error it was given
UpdatedLayer == CHOOSE layer_index \in op.updated : TRUE
NewError == op.errors[UpdatedLayer]

\* running*0.99 + new*0.01
Averaged(running, new) == CDiv(running * 99, 100) + CDiv(new, 100)

\* C20: a call of conv_update_training_error for the layer being trained
\* sets the running error to the new error when the running error is
\* unset, and otherwise to running*0.99 + new*0.01, the value recorded in
\* the history and compared with the threshold (the threshold check of the
\* same call may then reset it and advance the pipeline); a call for a
\* layer below the one being trained, or made once training is complete,
\* leaves the running error as it was
C20_RunningErrorUpdate ==
    op.name = "conv_update_training_error" =>
        LET b == op.before
            avg == Averaged(b.BPerror, NewError)
        IN  IF b.training_complete # 0 \/ UpdatedLayer < b.current_layer
            THEN conv.BPerror = b.BPerror
            ELSE IF UpdatedLayer # b.current_layer THEN TRUE
            ELSE IF b.BPerror < 0 THEN conv.BPerror = NewError
            ELSE /\ Len(conv.history) > 0
                 /\ conv.history[Len(conv.history)] = avg
                 /\ \/ conv.BPerror = avg
                    \/ /\ avg < conv.error_threshold[UpdatedLayer]
                       /\ conv.BPerror = BPERROR_UNSET
                       /\ conv.current_layer = b.current_layer + 1

\* a call for the layer being trained found the running error set and left
\* it at the average, which differs from both the old and the new error
C20_Witness ==
    /\ op.name = "conv_update_training_error"
    /\ op.before.training_complete = 0
    /\ UpdatedLayer = op.before.current_layer
    /\ op.before.BPerror >= 0
    /\ conv.BPerror = Averaged(op.before.BPerror, NewError)
    /\ conv.BPerror # op.before.BPerror
    /\ conv.BPerror # NewError

(***************************************************************************)
(* The cells of features_convolve worked on concurrently                   *)
(***************************************************************************)

\* grids and sources of the concurrent passes
CellGrids ==
    { [samples_across |-> 3, samples_down |-> 2, width |-> 5, height |-> 4],
      [samples_across |-> 2, samples_down |-> 3, width |-> 4, height |-> 6] }

\* no cell
NoCell == -1

\* every cell of the grid is still to do; the one autocoder and the
\* destination are shared by all cells
InitCells ==
    /\ \E g \in CellGrids, nf \in FeatureCounts, p \in PriorContents,
          seed \in Seeds :
          feat = [name |-> "cells", kind |-> "flt",
                  samples_across |-> g.samples_across,
                  samples_down |-> g.samples_down,
                  patch_radius |-> 1,
                  width |-> g.width, height |-> g.height, depth |-> 1,
                  src |-> Source("flt", g.width * g.height),
                  layer_units |-> g.samples_across * g.samples_down * nf,
                  prior |-> Prior(g.samples_across * g.samples_down * nf, p),
                  layer |-> Prior(g.samples_across * g.samples_down * nf, p),
                  ac_before |-> autocoder_init(4, nf, seed),
                  ac |-> autocoder_init(4, nf, seed),
                  use_dropouts |-> 0,
                  cell |-> Arr(g.samples_across * g.samples_down, "todo"),
                  owner |-> NoCell, first |-> NoCell,
                  overlapped |-> FALSE, retval |-> 0]
    /\ conv = << >>
    /\ op = NoCall
    /\ file = << >>
    /\ loaded = << >>
    /\ geom = NoCall

\* the first half of the work of cell k: its patch coordinates are
\* computed; out of bounds, its slice is zeroed and the cell is done; in
\* bounds, its patch is scanned into the inputs of the autocoder
CellScan ==
    /\ feat.name = "cells"
    /\ \E k \in DOMAIN feat.cell :
         /\ feat.cell[k] = "todo"
         /\ \E pc \in {CellCoords(k)} :
              IF pc.retval # 0
              THEN feat' = [feat EXCEPT
                              !.layer = zero_slice(@, k * feat.ac.no_of_hiddens,
                                                   feat.ac.no_of_hiddens),
                              !.cell[k] = "done",
                              !.first = IF @ = NoCell THEN k ELSE @]
              ELSE \E sc \in {scan_patch(feat.src, feat.width, feat.depth,
                                         pc.tx, pc.ty, pc.bx, pc.by, feat.ac)} :
                     feat' = IF sc.retval # 0
                             THEN [feat EXCEPT !.ac = sc.ac, !.retval = -4,
                                               !.cell[k] = "done"]
                             ELSE [feat EXCEPT !.ac = sc.ac, !.owner = k,
                                               !.cell[k] = "scanned"]
    /\ UNCHANGED <<conv, op, file, loaded, geom>>

\* the second half of the work of an in-bounds cell k: the inputs the
\* autocoder holds are encoded into the slice of the cell
CellEncode ==
    /\ feat.name = "cells"
    /\ \E k \in DOMAIN feat.cell :
         /\ feat.cell[k] = "scanned"
         /\ LET nf == feat.ac.no_of_hiddens
                index_layer == k * nf
                slice == Array([f \in 0..(nf-1) |-> feat.layer[index_layer + f]])
            IN  \E en \in {autocoder_encode(feat.ac, slice, feat.use_dropouts)} :
                  feat' = [feat EXCEPT
                             !.ac = en.ac,
                             !.layer = Array([n \in DOMAIN feat.layer |->
                                 IF n >= index_layer /\ n < index_layer + nf
                                 THEN en.encoded[n - index_layer]
                                 ELSE feat.layer[n]]),
                             !.cell[k] = "done",
                             !.first = IF @ = NoCell THEN k ELSE @,
                             !.overlapped = @ \/ feat.owner # k]
    /\ UNCHANGED <<conv, op, file, loaded, geom>>

NextCells == CellScan \/ CellEncode

SpecCells == InitCells /\ [][NextCells]_vars

\* every cell has been worked on
AllCellsDone ==
    /\ feat.name = "cells"
    /\ \A k \in DOMAIN feat.cell : feat.cell[k] = "done"

\* the destination the sequential pass of features_convolve leaves
SequentialLayer ==
    features_convolve(feat.samples_across, feat.samples_down,
                      feat.patch_radius, feat.width, feat.height, feat.depth,
                      feat.src, feat.layer_units, feat.prior, feat.ac_before,
                      feat.use_dropouts).layer

HistoryOf(c) ==
    [ctr |-> c.history_ctr, index |-> c.history_index,
     step |-> c.history_step, history |-> c.history]

\* C21: every conv_img step that learns for the layer being trained
\* increments itterations by exactly one (saturating at UINT_MAX) and
\* submits one sample to the training history, the step that supplies the
\* first sample after the running error was unset included
C21_EveryLearningStepCounts ==
    [][(/\ op'.name = "conv_img"
        /\ op'.retval = 0
        /\ conv.training_complete = 0
        /\ op'.learnt = {conv.current_layer}) =>
         /\ conv'.itterations =
              IF conv.itterations < UINT_MAX THEN conv.itterations + 1
              ELSE conv.itterations
         /\ HistoryOf(conv') # HistoryOf(conv)]_vars

(***************************************************************************)
(* A long run of error updates: the history fills and is compacted         *)
(***************************************************************************)

\* bound of the number of error updates of a run
MaxUpdates == 4200

\* a one-layer pipeline that never completes its layer (threshold 0)
InitHistory ==
    /\ \E seed \in Seeds, garbage \in GarbageValues :
         conv = conv_init(1, 5, 5, 1, 1, 1, 1, Arr(1, 0), seed, garbage).conv
    /\ op = NoCall
    /\ file = << >>
    /\ loaded = << >>
    /\ geom = NoCall
    /\ feat = NoCall

\* conv_update_training_error(0, BPerror, conv), as a training step calls it
HistoryStep ==
    /\ conv.itterations < MaxUpdates
    /\ \E BPerror \in ErrorValues :
         conv' = conv_update_training_error(0, BPerror, conv, 0)
    /\ UNCHANGED <<op, file, loaded, geom, feat>>

NextHistory == HistoryStep

SpecHistory == InitHistory /\ [][NextHistory]_vars

RECURSIVE PowerOfTwo(_)
PowerOfTwo(n) == n = 1 \/ (n > 1 /\ n % 2 = 0 /\ PowerOfTwo(n \div 2))

\* the index and the counter are inside their ranges, every sample stored
\* is inside the array, and the step is a power of two
HistoryInRange(c) ==
    /\ 0 <= c.history_index
    /\ c.history_index < DEEPLEARN_HISTORY_SIZE
    /\ Len(c.history) = c.history_index
    /\ 0 <= c.history_ctr
    /\ c.history_ctr < c.history_step
    /\ PowerOfTwo(c.history_step)

\* C22: before and after every history update 0 <= history_index <
\* DEEPLEARN_HISTORY_SIZE and 0 <= history_ctr < history_step, no sample is
\* stored outside the array and the step is a power of two; exactly when a
\* write makes the index reach the capacity the step doubles and the index
\* is halved
C22_HistoryStaysInRange ==
    [][(conv.training_complete = 0 /\ conv.BPerror >= 0) =>
         LET wrote == conv.history_ctr + 1 >= conv.history_step
             full == wrote /\ conv.history_index + 1 >= DEEPLEARN_HISTORY_SIZE
         IN  /\ HistoryInRange(conv)
             /\ HistoryInRange(conv')
             /\ IF full
                THEN /\ conv'.history_step = 2 * conv.history_step
                     /\ conv'.history_index = (conv.history_index + 1) \div 2
                ELSE /\ conv'.history_step = conv.history_step
                     /\ conv'.history_index =
                          conv.history_index + (IF wrote THEN 1 ELSE 0)]_vars

\* the array has filled twice: the step is 4, samples have been stored
\* since and the counter is between two writes
C22_Witness ==
    /\ conv.history_step = 4
    /\ conv.history_index > DEEPLEARN_HISTORY_SIZE \div 2
    /\ conv.history_ctr = 3

(***************************************************************************)
(* Deconvolution on its own: features_deconvolve                           *)
(***************************************************************************)

InitDeconvolve ==
    \* stale: what the hidden units hold before the call; scale: the size
    \* of the values of the layer array
    /\ \E g \in CellGrids, nf \in FeatureCounts,
          stale \in {0, FP, 2 * FP, 3 * FP}, scale \in 1..4,
          seed \in Seeds, garbage \in GarbageValues :
          feat = [name |-> "args",
                  samples_across |-> g.samples_across,
                  samples_down |-> g.samples_down,
                  patch_radius |-> 1,
                  width |-> g.width, height |-> g.height, depth |-> 1,
                  img |-> Prior(g.width * g.height, "garbage"),
                  layer_units |-> g.samples_across * g.samples_down * nf,
                  layer |-> Array([k \in 0..(g.samples_across * g.samples_down * nf - 1)
                                     |-> (k + 1) * scale * (FP \div 10)]),
                  ac |-> [autocoder_init(4, nf, seed)
                            EXCEPT !.hiddens = Arr(nf, stale)],
                  garbage |-> garbage]
    /\ conv = << >>
    /\ op = NoCall
    /\ file = << >>
    /\ loaded = << >>
    /\ geom = NoCall

\* the call features_deconvolve(...)
Deconvolve ==
    /\ feat.name = "args"
    /\ \E r \in {features_deconvolve(feat.samples_across, feat.samples_down,
                                    feat.patch_radius, feat.width, feat.height,
                                    feat.depth, feat.img, feat.layer_units,
                                    feat.layer, feat.ac, feat.garbage)} :
         feat' = [feat EXCEPT !.name = "deconvolve"] @@
                 [retval |-> r.retval, after |-> r.img, ac_after |-> r.ac]
    /\ UNCHANGED <<conv, op, file, loaded, geom>>

NextDeconvolve == Deconvolve

SpecDeconvolve == InitDeconvolve /\ [][NextDeconvolve]_vars

\* the in-bounds cells of the grid whose patch holds element n of the image
CellsOver(n) ==
    {k \in 0..(feat.samples_across * feat.samples_down - 1) :
        LET pc == CellCoords(k)
            x == (n \div feat.depth) % feat.width
            y == (n \div feat.depth) \div feat.width
        IN  /\ pc.retval = 0
            /\ y >= pc.ty /\ y < pc.by /\ x >= pc.tx /\ x < pc.bx}

\* what the patches of the cells of S add to element n of the image when
\* each cell is reconstructed from its own feature vector
RECURSIVE OwnVectorSum(_, _)
OwnVectorSum(S, n) ==
    IF S = {} THEN 0
    ELSE LET k == CHOOSE c \in S : TRUE
             nf == feat.ac.no_of_hiddens
             term(h) == Mul(feat.layer[k * nf + h],
                            PatchWeight(feat.ac, weight_index(h, n - (n % feat.depth),
                                                              n % feat.depth),
                                        feat.garbage))
         IN  SumDown(term, nf) + OwnVectorSum(S \ {k}, n)

\* C23: after features_deconvolve every element of the image holds the sum
\* of the patches of the in-bounds cells over it, each reconstructed from
\* the cell's own feature vector of the layer array; the out-of-bounds
\* cells write nothing to the image, and the hidden units hold the vector
\* of the out-of-bounds cell visited last, cell 0
C23_OwnFeatureVector ==
    (feat.name = "deconvolve" /\ feat.retval = 0) =>
        /\ \A n \in DOMAIN feat.after :
             feat.after[n] = OwnVectorSum(CellsOver(n), n)
        /\ \A h \in DOMAIN feat.ac_after.hiddens :
             feat.ac_after.hiddens[h] = feat.layer[h]

\* C29: every weight features_deconvolve reads while it reconstructs the
\* patch of an in-bounds cell has its index inside the weight matrix,
\* 0 .. no_of_hiddens*no_of_inputs - 1, and is the weight between the hidden
\* unit processed and the position of the pixel within the patch
C29_WeightReadsInsideMatrix ==
    (feat.name = "deconvolve" /\ feat.retval = 0) =>
        \A k \in 0..(feat.samples_across * feat.samples_down - 1) :
            CellCoords(k).retval = 0 =>
                \A i \in 0..(feat.ac.no_of_hiddens - 1),
                   pos \in 0..(feat.ac.no_of_inputs - 1) :
                    LET pc == CellCoords(k)
                        n == PatchSourceIndex(pos, feat.width, feat.depth,
                                              pc.tx, pc.ty, pc.bx)
                        read == weight_index(i, n - (n % feat.depth),
                                             n % feat.depth)
                    IN  /\ read \in DOMAIN feat.ac.weights
                        /\ read = i * feat.ac.no_of_inputs + pos

(***************************************************************************)
(* The order in which a learning call visits the cells                     *)
(***************************************************************************)

\* the autocoder after one update per in-bounds cell of the sequence cells,
\* taken in its order, each update starting from the autocoder the update
\* before it left
RECURSIVE LearnInOrder(_, _)
LearnInOrder(ac, cells) ==
    IF cells = << >> THEN ac
    ELSE With(CellCoords(Head(cells)), LAMBDA pc :
           LearnInOrder(
             IF pc.retval # 0 THEN ac
             ELSE autocoder_update(
                    ScanSource(feat.kind, feat.src, feat.width, feat.depth,
                               pc.tx, pc.ty, pc.bx, pc.by, ac).ac),
             Tail(cells)))

\* the cells of the grid of the call, rows from 0 upward and columns from 0
\* upward within a row, and the same from the last cell down to the first
RowMajor == [i \in 1..(feat.samples_across * feat.samples_down) |-> i - 1]
ReverseRowMajor ==
    [i \in 1..(feat.samples_across * feat.samples_down) |->
        feat.samples_across * feat.samples_down - i]

\* C24 as stated: a learning call leaves the autocoder that one update per
\* in-bounds cell leaves when the cells are visited in row-major order,
\* each update starting from the weights of the update before it
C24_RowMajorOrder ==
    (feat.name = "learn" /\ feat.retval = 0) =>
        feat.ac_after = LearnInOrder(feat.ac, RowMajor)

\* C24 with the order of the code: the cells are visited in reverse
\* row-major order, rows from the last down to 0 and columns from the last
\* down to 0 within a row
C24_ReverseRowMajorOrder ==
    (feat.name = "learn" /\ feat.retval = 0) =>
        feat.ac_after = LearnInOrder(feat.ac, ReverseRowMajor)

\* a learning call trained on at least two patches and changed the
\* weights, and the order of the visits shows in the autocoder it left
C24_Witness ==
    /\ feat.name = "learn"
    /\ feat.retval = 0
    /\ Cardinality(InBoundsCells) >= 2
    /\ feat.ac_after.weights # feat.ac.weights
    /\ feat.ac_after = LearnInOrder(feat.ac, ReverseRowMajor)
    /\ feat.ac_after # LearnInOrder(feat.ac, RowMajor)

(***************************************************************************)
(* Autocoder updates with dropouts                                         *)
(***************************************************************************)

\* a few updates of one autocoder on one input patch: seed, number of
\* hidden units, dropout percentage (0.01 is what autocoder_init sets) and
\* inputs vary
InitUpdate ==
    /\ \E seed \in {123, 456, 789, 1000}, nh \in 1..3,
          dropout_percent \in {FP \div 100, 30 * FP, 60 * FP},
          p \in {37, 101} :
          feat = [name |-> "args", steps |-> 0,
                  ac |-> [autocoder_init(4, nh, seed) EXCEPT
                            !.dropout_percent = dropout_percent,
                            !.inputs = Array([k \in 0..3 |->
                                    (((k + 1) * p) % 256) * (FP \div 256)])]]
    /\ conv = << >>
    /\ op = NoCall
    /\ file = << >>
    /\ loaded = << >>
    /\ geom = NoCall

\* the call autocoder_update(autocoder)
Update ==
    /\ feat.steps < MaxSteps
    /\ feat' = [name |-> "update", steps |-> feat.steps + 1,
                before |-> feat.ac, ac |-> autocoder_update(feat.ac)]
    /\ UNCHANGED <<conv, op, file, loaded, geom>>

NextUpdate == Update

SpecUpdate == InitUpdate /\ [][NextUpdate]_vars

\* the hidden units the last update dropped out
Dropped == {h \in DOMAIN feat.ac.hiddens : feat.ac.hiddens[h] = AUTOCODER_DROPPED_OUT}

\* C25: after an update step, every hidden unit h the step dropped out has
\* contributed nothing to the decoded outputs (they are the outputs decoded
\* with the output of h taken as 0) and nothing to the back-propagated
\* error (bperr[h] is 0), and bias[h] and every weight of row h are as they
\* were before the step
C25_DroppedUnitsExcluded ==
    feat.name = "update" =>
        /\ feat.ac.outputs =
             autocoder_decode(
               [feat.before EXCEPT !.hiddens =
                  Array([h \in DOMAIN feat.ac.hiddens |->
                           IF h \in Dropped THEN 0 ELSE feat.ac.hiddens[h]])]).outputs
        /\ \A h \in Dropped :
             /\ feat.ac.bperr[h] = 0
             /\ feat.ac.bias[h] = feat.before.bias[h]
             /\ \A i \in 0..(feat.ac.no_of_inputs - 1) :
                  feat.ac.weights[h * feat.ac.no_of_inputs + i] =
                  feat.before.weights[h * feat.ac.no_of_inputs + i]

\* an update dropped one hidden unit out and changed the weights of another
C25_Witness ==
    /\ feat.name = "update"
    /\ Dropped # {}
    /\ Dropped # DOMAIN feat.ac.hiddens
    /\ feat.ac.weights # feat.before.weights

(***************************************************************************)
(* Steps on a pipeline that has already been trained for a while           *)
(***************************************************************************)

\* the pipeline after k training steps on the same image; a pipeline
\* without layers has no step to take
RECURSIVE Trained(_, _)
Trained(c, k) ==
    IF k = 0 \/ c.no_of_layers < 1 THEN c
    ELSE Trained(conv_img(Image(c.inputs_across * c.inputs_down *
                                c.inputs_depth, 37), c, 1).conv, k - 1)

\* a pipeline as conv_init and 0, 2 or 4 training steps leave it: with
\* thresholds above the errors a layer completes every second step
InitTrained ==
    /\ \E no_of_layers \in 1..MaxLayers, cfg \in Configs, seed \in Seeds,
          garbage \in GarbageValues, k \in {0, 2, 4} :
         \E error_threshold \in [0..(no_of_layers-1) -> ThresholdValues] :
            conv = Trained(conv_init(no_of_layers, cfg.inputs_across,
                                     cfg.inputs_down, cfg.inputs_depth,
                                     cfg.max_features, cfg.reduction_factor,
                                     cfg.pooling_factor, error_threshold,
                                     seed, garbage).conv, k)
    /\ op = Call("conv_init", 0, 0, conv, {}, {}, << >>)
    /\ file = << >>
    /\ loaded = << >>
    /\ geom = NoCall
    /\ feat = NoCall

NextTrained == ConvImg \/ ConvUpdateTrainingError

SpecTrained == InitTrained /\ [][NextTrained]_vars

\* C26: once training_complete is set no step clears it, every step leaves
\* current_layer, the running error, the iteration counter and the history
\* as they were, and every conv_img step succeeds, convolves and pools all
\* no_of_layers layers and learns for none of them (no weight changes)
C26_CompleteIsFinal ==
    [][conv.training_complete # 0 =>
         /\ conv'.training_complete = conv.training_complete
         /\ conv'.current_layer = conv.current_layer
         /\ conv'.BPerror = conv.BPerror
         /\ conv'.itterations = conv.itterations
         /\ HistoryOf(conv') = HistoryOf(conv)
         /\ op'.name = "conv_img" =>
              /\ op'.retval = 0
              /\ op'.updated = 0..(conv.no_of_layers - 1)
              /\ op'.learnt = {}
              /\ conv'.enable_learning = 0
              /\ Progress(conv').weights = Progress(conv).weights]_vars

\* a conv_img step has run on a two-layer pipeline whose training was
\* complete
C26_Witness ==
    /\ op.name = "conv_img"
    /\ op.before.training_complete # 0
    /\ conv.no_of_layers = 2
    /\ op.updated = {0, 1}

\* C28: a conv_img step that follows an advance of current_layer, or
\* conv_init, without another step in between finds the running error unset
\* and does not advance current_layer: no two consecutive steps both
\* advance
C28_NoAdvanceRightAfterAdvance ==
    [][(/\ op'.name = "conv_img"
        /\ \/ op.name = "conv_init"
           \/ /\ op.name \in {"conv_img", "conv_update_training_error"}
              /\ conv.current_layer > op.before.current_layer) =>
         /\ conv.BPerror = BPERROR_UNSET
         /\ conv'.current_layer = conv.current_layer]_vars

\* a conv_img step followed the step that advanced the pipeline to layer 1,
\* learnt for layer 1 and set the running error without advancing, although
\* the error is below the threshold of the layer
C28_Witness ==
    /\ op.name = "conv_img"
    /\ op.retval = 0
    /\ op.before.current_layer = 1
    /\ op.before.BPerror = BPERROR_UNSET
    /\ op.learnt = {1}
    /\ conv.current_layer = 1
    /\ conv.BPerror >= 0
    /\ conv.BPerror < conv.error_threshold[1]

(***************************************************************************)
(* Training steps over a range of input geometries                         *)
(***************************************************************************)

\* arguments of conv_init: square and oblong inputs, inputs smaller than
\* the smallest layer, mono and colour, reduction and pooling factors from
\* 1 to beyond the width of a layer, and the layer counts tried with each
Geometries ==
    { [inputs_across |-> 5, inputs_down |-> 5, inputs_depth |-> 1,
       max_features |-> 1, reduction_factor |-> 1, pooling_factor |-> 1,
       layers |-> {1, 2, 3}],
      [inputs_across |-> 8, inputs_down |-> 8, inputs_depth |-> 1,
       max_features |-> 4, reduction_factor |-> 2, pooling_factor |-> 1,
       layers |-> {1, 2}],
      [inputs_across |-> 8, inputs_down |-> 5, inputs_depth |-> 3,
       max_features |-> 2, reduction_factor |-> 2, pooling_factor |-> 2,
       layers |-> {1, 2, 3}],
      [inputs_across |-> 2, inputs_down |-> 3, inputs_depth |-> 1,
       max_features |-> 1, reduction_factor |-> 1, pooling_factor |-> 1,
       layers |-> {1, 2, 3}],
      [inputs_across |-> 12, inputs_down |-> 12, inputs_depth |-> 1,
       max_features |-> 2, reduction_factor |-> 3, pooling_factor |-> 2,
       layers |-> {1, 2, 3}],
      [inputs_across |-> 9, inputs_down |-> 7, inputs_depth |-> 1,
       max_features |-> 3, reduction_factor |-> 2, pooling_factor |-> 3,
       layers |-> {1, 2, 3}],
      [inputs_across |-> 5, inputs_down |-> 4, inputs_depth |-> 1,
       max_features |-> 2, reduction_factor |-> 1, pooling_factor |-> 7,
       layers |-> {1, 2, 3}] }

\* the arguments of a conv_init call and the number of training steps that
\* follow it before the steps that are observed
InitGeometry ==
    /\ \E cfg \in Geometries, seed \in Seeds, garbage \in GarbageValues,
          k \in {0, 2, 4} :
       \E no_of_layers \in cfg.layers :
          op = [name |-> "args", cfg |-> cfg, no_of_layers |-> no_of_layers,
                random_seed |-> seed, garbage |-> garbage, k |-> k]
    /\ conv = << >>
    /\ file = << >>
    /\ loaded = << >>
    /\ geom = NoCall
    /\ feat = NoCall

\* a successful conv_init and the first op.k training steps; the thresholds
\* are above the errors, so that a layer completes every second step and
\* the steps reach every layer
GeometryInit ==
    /\ op.name = "args"
    /\ \E r \in {conv_init(op.no_of_layers, op.cfg.inputs_across,
                          op.cfg.inputs_down, op.cfg.inputs_depth,
                          op.cfg.max_features, op.cfg.reduction_factor,
                          op.cfg.pooling_factor,
                          Arr(op.no_of_layers, 2 * FP), op.random_seed,
                          op.garbage)} :
         /\ r.retval = 0
         /\ \E c \in {Trained(r.conv, op.k)} :
              /\ conv' = c
              /\ op' = Call("conv_init", 0, 0, c, {}, {}, << >>)
    /\ UNCHANGED <<file, loaded, geom, feat>>

\* a training step on the pipeline built
GeometryStep == op.name # "args" /\ ConvImg

NextGeometry == GeometryInit \/ GeometryStep

SpecGeometry == InitGeometry /\ [][NextGeometry]_vars

\* C27: on a pipeline built by a successful conv_init every conv_img step
\* returns zero: no size validation of learn or convolve fails at any
\* layer, and pooling does not fail; every layer up to the active one is
\* reached
C27_SizesAgree ==
    op.name = "conv_img" =>
        /\ op.retval = 0
        /\ op.updated =
             0..(IF op.before.training_complete # 0
                 THEN conv.no_of_layers - 1 ELSE op.before.current_layer)

\* a conv_img step has learnt for the second layer of a pipeline whose
\* layers differ in their feature counts, and pooled both layers
C27_Witness ==
    /\ op.name = "conv_img"
    /\ op.retval = 0
    /\ op.learnt = {1}
    /\ op.updated = {0, 1}
    /\ conv_layer_features(conv, 1) # conv_layer_features(conv, 0)

(***************************************************************************)
(* Convolution with autocoders of several dropout percentages              *)
(***************************************************************************)

\* the arguments of a convolve call whose autocoder has the dropout
\* percentage of autocoder_init or one set afterwards (conv_set_dropouts);
\* prior names what the destination holds before the call
InitDropouts ==
    /\ \E kind \in {"img", "flt"}, g \in CellGrids, nf \in FeatureCounts,
          p \in PriorContents, use_dropouts \in {0, 1},
          seed \in {123, 456, 789, 1000},
          dropout_percent \in {FP \div 100, 30 * FP, 60 * FP} :
          feat = [name |-> "args", kind |-> kind,
                  samples_across |-> g.samples_across,
                  samples_down |-> g.samples_down,
                  patch_radius |-> 1,
                  width |-> g.width, height |-> g.height, depth |-> 1,
                  src |-> Source(kind, g.width * g.height),
                  layer_units |-> g.samples_across * g.samples_down * nf,
                  prior |-> p,
                  layer |-> Prior(g.samples_across * g.samples_down * nf, p),
                  ac |-> [autocoder_init(4, nf, seed) EXCEPT
                            !.dropout_percent = dropout_percent],
                  use_dropouts |-> use_dropouts]
    /\ conv = << >>
    /\ op = NoCall
    /\ file = << >>
    /\ loaded = << >>
    /\ geom = NoCall

SpecDropouts == InitDropouts /\ [][NextConvolve]_vars

\* C30: after a successful convolve the destination slice of every
\* in-bounds cell holds what the same call, with the same autocoder state
\* and seed, leaves there when the destination held other contents before
C30_DestinationIndependent ==
    (feat.name = "convolve" /\ feat.retval = 0) =>
        \A p \in PriorContents :
            LET other == ConvolveSource(feat.kind, feat.samples_across,
                             feat.samples_down, feat.patch_radius,
                             feat.width, feat.height, feat.depth, feat.src,
                             feat.layer_units, Prior(feat.layer_units, p),
                             feat.ac, feat.use_dropouts).layer
                nf == feat.ac.no_of_hiddens
            IN  \A k \in 0..(feat.samples_across * feat.samples_down - 1) :
                    features_patch_coords(k % feat.samples_across,
                        k \div feat.samples_across, feat.samples_across,
                        feat.samples_down, feat.patch_radius,
                        feat.width, feat.height).retval = 0
                    => \A f \in 0..(nf - 1) :
                           feat.after[k * nf + f] = other[k * nf + f]

====
